---- MODULE Spec2Model ----
(***************************************************************************)
(* Sparo tab bar: the task/tab list and the gesture-driven tab-switching   *)
(* controller of App (src/unnamed/part_009), the pointer handling of       *)
(* TabBar (src/src/components/TabBar.tsx) and of the standalone TabBar     *)
(* (src/src/StandaloneTabBar.tsx).                                         *)
(*                                                                         *)
(* Conventions                                                             *)
(*  - JavaScript null is the string "null"; array indices are 0-based as   *)
(*    in the source (tabs[i] of the source is tabs[i + 1] here), and       *)
(*    findIndex yields -1 when nothing matches.                            *)
(*  - dragProgress is kept as its numerator over the viewport width:       *)
(*    the source's progress p is dragProgress / ViewportWidth, so          *)
(*    p > 0.3 is 10 * dragProgress > 3 * ViewportWidth and p * width is    *)
(*    dragProgress.                                                        *)
(*  - A handler runs to completion and React re-renders before the next    *)
(*    handler runs: a handler reads the state of the last render.  Two     *)
(*    handlers called from one event (onSwipeStart then onSwipeMove in     *)
(*    handlePointerMove) read the same render: the second one sees the     *)
(*    refs the first one wrote, and the state values from before it.       *)
(*  - Date.now() is an input of the handlers that read it: the clock       *)
(*    never runs backwards here, and may or may not have advanced since    *)
(*    it was last read.                                                    *)
(***************************************************************************)
EXTENDS Integers, Sequences, FiniteSets, TLC

VARIABLES
    tabs,           \* task.tabs of App: the sequence of Tab records
    now,            \* the last value Date.now() returned
    crashed,        \* a state updater threw: React has unmounted the tree
    isSwitcherOpen, \* App state isSwitcherOpen
    app,            \* App's drag state and refs, pending callbacks, and the
                    \* two TabBar motion values that follow dragProgress
    bar,            \* the gesture refs of TabBar (TabBar.tsx)
    sbar,           \* the drag refs of the standalone TabBar
    editor,         \* the tab-name editor of TabBar (TabBar.tsx)
    lastOp,         \* history: the last operation on the task that was
                    \* recorded, with the tabs it was applied to
    page,           \* App's isLoading, error and task identity, the requests to
                    \* the server that are in flight, and the server's store
    addressBar,     \* the props, refs and state of DraggableAddressBar
    exiting         \* the tab card of TabSwitcher that AnimatePresence keeps
                    \* mounted while it animates out, with the props of its
                    \* last render

vars == <<tabs, now, crashed, isSwitcherOpen, app, bar, sbar, editor, lastOp,
          page, exiting, addressBar>>

----------------------------------------------------------------------------
\* Bounds of the model

MaxTabs == 3
MaxClock == 1
MaxPending == 1
MaxRacing == 2
MaxCalls == 2
ViewportWidth == 100

\* Pointer positions the events are drawn from
DownPositions == { <<50, 100>> }
XPositions == {10, 30, 50, 70, 90}
YPositions == {30, 70, 100}
\* and the moves of the standalone bar, which takes the start of the swipe
\* from the move that locks the gesture
StandaloneXPositions == {10, 30, 50, 90}

CanvasTypes == {"doc", "sheet"}
NewNames == {"Notes"}

\* Program constants
DirectionThreshold == 5
CommitThresholdNum == 3
CommitThresholdDen == 10
LockThreshold == 15
SwipeUpThreshold == 60
StandaloneLockThreshold == 5
StandaloneSwipeUpThreshold == 20

Abs(n) == IF n < 0 THEN -n ELSE n
Min(a, b) == IF a < b THEN a ELSE b

----------------------------------------------------------------------------
\* Tabs

NewTab(t) ==
    [id |-> t, name |-> "Blank Tab", canvasType |-> "null", createdAt |-> t,
     isActive |-> TRUE, commentCount |-> 0]

createDefaultTask(t) == << NewTab(t) >>

\* tabs.find(tab => tab.isActive): the 0-based index of the first active tab,
\* -1 when there is none (activeTab is then undefined)
ActiveTabIndex(ts) ==
    IF \E i \in 1..Len(ts) : ts[i].isActive
    THEN (CHOOSE i \in 1..Len(ts) :
            ts[i].isActive /\ \A j \in 1..(i - 1) : ~ts[j].isActive) - 1
    ELSE -1

HasActiveTab(ts) == ActiveTabIndex(ts) >= 0

\* tabs.findIndex(tab => tab.id === id)
FindIndexById(ts, id) ==
    IF \E i \in 1..Len(ts) : ts[i].id = id
    THEN (CHOOSE i \in 1..Len(ts) :
            ts[i].id = id /\ \A j \in 1..(i - 1) : ts[j].id # id) - 1
    ELSE -1

\* task.tabs.findIndex(tab => tab.id === activeTab.id), for a defined activeTab
CurrentIndex(ts) == FindIndexById(ts, ts[ActiveTabIndex(ts) + 1].id)

switchToTab(ts, index) ==
    [i \in 1..Len(ts) |-> [ts[i] EXCEPT !.isActive = (i - 1 = index)]]

\* Fault variant of createNewTab: the new tab is put first
createNewTabFirst(ts, t) ==
    << NewTab(t) >> \o [i \in 1..Len(ts) |-> [ts[i] EXCEPT !.isActive = FALSE]]

createNewTab(ts, t) ==
    Append([i \in 1..Len(ts) |-> [ts[i] EXCEPT !.isActive = FALSE]], NewTab(t))

handleTabSelect(ts, tabId) ==
    [i \in 1..Len(ts) |-> [ts[i] EXCEPT !.isActive = (ts[i].id = tabId)]]

CanvasTypeName(type) ==
    CASE type = "doc" -> "Untitled Doc"
      [] type = "sheet" -> "Untitled Sheet"
      [] type = "comm" -> "Untitled Comm"
      [] type = "chat" -> "Untitled Chat"

\* Called with a defined activeTab only
handleCanvasTypeSelect(ts, type) ==
    LET activeId == ts[ActiveTabIndex(ts) + 1].id
    IN  [i \in 1..Len(ts) |->
            IF ts[i].id = activeId
            THEN [ts[i] EXCEPT !.canvasType = type, !.name = CanvasTypeName(type)]
            ELSE ts[i]]

handleTabNameChange(ts, tabId, newName) ==
    [i \in 1..Len(ts) |->
        IF ts[i].id = tabId THEN [ts[i] EXCEPT !.name = newName] ELSE ts[i]]

\* prevTask.tabs.filter(tab => tab.id !== tabId)
FilterOutId(ts, tabId) == SelectSeq(ts, LAMBDA tab : tab.id # tabId)

\* handleTabClose, its three outcomes.  The updater of the removing branch
\* writes updatedTabs[newActiveIndex].isActive, which throws when the index is
\* outside updatedTabs.
TabCloseNewActiveIndex(ts, tabId) ==
    LET tabIndex == FindIndexById(ts, tabId)
    IN  IF tabIndex < Len(FilterOutId(ts, tabId)) THEN tabIndex ELSE tabIndex - 1

TabCloseIsClosingActive(ts, tabId) ==
    LET tabIndex == FindIndexById(ts, tabId)
    IN  tabIndex >= 0 /\ ts[tabIndex + 1].isActive

TabCloseThrows(ts, tabId) ==
    /\ Len(ts) # 1
    /\ TabCloseIsClosingActive(ts, tabId)
    /\ LET k == TabCloseNewActiveIndex(ts, tabId)
       IN  k < 0 \/ k >= Len(FilterOutId(ts, tabId))

\* Fault variant of handleTabClose: no special case for the only tab
handleTabCloseRemovesOnlyTab(ts, tabId, t) ==
    LET updatedTabs == FilterOutId(ts, tabId)
    IN  IF TabCloseIsClosingActive(ts, tabId) /\ Len(updatedTabs) > 0
        THEN [updatedTabs EXCEPT
                ![TabCloseNewActiveIndex(ts, tabId) + 1].isActive = TRUE]
        ELSE updatedTabs

handleTabClose(ts, tabId, t) ==
    IF Len(ts) = 1
    THEN << NewTab(t) >>
    ELSE LET updatedTabs == FilterOutId(ts, tabId)
         IN  IF TabCloseIsClosingActive(ts, tabId)
             THEN [updatedTabs EXCEPT
                     ![TabCloseNewActiveIndex(ts, tabId) + 1].isActive = TRUE]
             ELSE updatedTabs

----------------------------------------------------------------------------
\* The shared progress value and the two views that follow it

\* updatePositions of TabBar: <<currentTabX, adjacentTabX>> for a direction and
\* a progress (progress * screenWidth is the numerator itself)
updatePositions(direction, progress) ==
    IF direction = "left"
    THEN << -progress, ViewportWidth - progress >>
    ELSE IF direction = "right"
         THEN << progress, -ViewportWidth + progress >>
         ELSE << 0, 0 >>

\* updatePositions of CanvasArea: the same pair for the canvas
canvasUpdatePositions(direction, progress) ==
    IF direction = "left"
    THEN << -progress, ViewportWidth - progress >>
    ELSE IF direction = "right"
         THEN << progress, -ViewportWidth + progress >>
         ELSE << 0, 0 >>

\* dragDirectionRef.current as CanvasArea reads it.  CanvasArea of App is
\* given the ref of App (canvasDirectionRef is "shared"); CanvasArea of
\* StandaloneTabBarApp keeps a ref of its own, which it sets to the
\* dragDirection prop when it renders.
CanvasDirection(a) ==
    IF a.canvasDirectionRef = "shared"
    THEN a.dragDirectionRef
    ELSE a.canvasDirectionRef

\* dragProgress.set(p): a MotionValue notifies its 'change' subscribers only
\* when the value differs from the previous one; the subscribers of TabBar
\* and of CanvasArea run updatePositions, each with its direction ref as it
\* is at that moment
SetProgress(a, p) ==
    IF p = a.dragProgress
    THEN a
    ELSE LET pos == updatePositions(a.dragDirectionRef, p)
             canvasPos == canvasUpdatePositions(CanvasDirection(a), p)
         IN  [a EXCEPT !.dragProgress = p,
                       !.currentTabX = pos[1],
                       !.adjacentTabX = pos[2],
                       !.canvasTabX = canvasPos[1],
                       !.canvasAdjacentX = canvasPos[2]]

----------------------------------------------------------------------------
\* App: the drag handlers.  a holds the refs as they are when the handler
\* runs, c the state of the render the handler was created in.
\* gestureStartIndex is a history field, not state of the program: the index
\* of the active tab when the gesture in progress was accepted, -1 when no
\* gesture is in progress.

\* activeIndex of TabBar and CanvasArea: tabs.findIndex(t => t.id ===
\* activeTabId), with activeTabId the id of the active tab, -1 when there is
\* none
activeIndex(ts) == IF HasActiveTab(ts) THEN CurrentIndex(ts) ELSE -1

\* displayedTabIndex once the effects have run while no drag direction is
\* set; currentTab is tabs[displayedTabIndex]
DisplayedTabIndex(ts) == activeIndex(ts)

\* Fault variant of DisplayedIndexEffect: the dragDirection test is lost
DisplayedIndexFollowsActive(a, ts) ==
    [a EXCEPT !.displayedTabIndex = activeIndex(ts)]

\* The effect of TabBar and CanvasArea on [activeIndex, dragDirection], run
\* with the render that follows a handler: a is the drag state and ts the
\* tabs of that render
DisplayedIndexEffect(a, ts) ==
    IF a.dragDirection = "null"
    THEN [a EXCEPT !.displayedTabIndex = activeIndex(ts)]
    ELSE a

\* The render of CanvasArea of StandaloneTabBarApp sets its ref to the
\* dragDirection prop
CanvasRefRender(a) ==
    IF a.canvasDirectionRef = "shared"
    THEN a
    ELSE [a EXCEPT !.canvasDirectionRef = a.dragDirection]

\* The render that follows a handler, with its effects: a is the drag state
\* and ts the tabs the handler has left
Render(a, ts) == CanvasRefRender(DisplayedIndexEffect(a, ts))

InitApp ==
    [ isDragging |-> FALSE, dragStartX |-> 0, lastClientX |-> 0,
      dragDirectionRef |-> "null", dragDirection |-> "null",
      isTransitioning |-> FALSE, dragProgress |-> 0,
      transitionTimeoutRef |-> "null",
      rafAnimate |-> 0, animation |-> "none",
      rafCommitReset |-> 0, rafSnapReset |-> 0,
      currentTabX |-> 0, adjacentTabX |-> 0,
      displayedTabIndex |-> 0,
      canvasDirectionRef |-> "shared",
      canvasTabX |-> 0, canvasAdjacentX |-> 0,
      gestureStartIndex |-> -1 ]

\* Fault variant of SwipeStartAccepts: the isDragging.current check is lost
SwipeStartIgnoresDragging(a, c) == ~c.isTransitioning

SwipeStartAccepts(a, c) == ~c.isTransitioning /\ ~a.isDragging

handleSwipeStart(a, c, clientX) ==
    IF ~SwipeStartAccepts(a, c)
    THEN a
    ELSE SetProgress([a EXCEPT !.isDragging = TRUE,
                               !.dragStartX = clientX,
                               !.lastClientX = clientX,
                               !.dragDirectionRef = "null",
                               !.dragDirection = "null"], 0)

\* An accepted handleSwipeStart, with the history field recorded
AcceptedSwipeStart(a, c, ts, clientX) ==
    [handleSwipeStart(a, c, clientX) EXCEPT
        !.gestureStartIndex = ActiveTabIndex(ts)]

handleSwipeMove(a, c, ts, clientX) ==
    IF ~a.isDragging \/ c.isTransitioning \/ ~HasActiveTab(ts)
    THEN a
    ELSE LET deltaX == clientX - a.dragStartX
             currentIndex == CurrentIndex(ts)
             a1 == [a EXCEPT !.lastClientX = clientX]
             a2 == IF c.dragDirection = "null" /\ Abs(deltaX) > DirectionThreshold
                   THEN IF deltaX < 0
                        THEN [a1 EXCEPT !.dragDirectionRef = "left",
                                        !.dragDirection = "left"]
                        ELSE IF deltaX > 0 /\ currentIndex > 0
                             THEN [a1 EXCEPT !.dragDirectionRef = "right",
                                             !.dragDirection = "right"]
                             ELSE a1
                   ELSE a1
         IN  IF deltaX < 0
             THEN SetProgress(a2, Min(Abs(deltaX), ViewportWidth))
             ELSE IF deltaX > 0 /\ currentIndex > 0
                  THEN SetProgress(a2, Min(deltaX, ViewportWidth))
                  ELSE IF deltaX = 0 THEN SetProgress(a2, 0) ELSE a2

\* handleSwipeEnd passes its two early returns
SwipeEndRuns(a, c) == a.isDragging /\ ~c.isTransitioning

\* actualDirection of handleSwipeEnd, from the last pointer position
ActualDirection(a, ts) ==
    LET deltaX == a.lastClientX - a.dragStartX
    IN  IF deltaX < 0 THEN "left"
        ELSE IF deltaX > 0 /\ CurrentIndex(ts) > 0 THEN "right"
        ELSE "null"

\* progress > threshold && actualDirection
SwipeEndCommits(a, c, ts) ==
    /\ SwipeEndRuns(a, c)
    /\ HasActiveTab(ts)
    /\ CommitThresholdDen * a.dragProgress > CommitThresholdNum * ViewportWidth
    /\ ActualDirection(a, ts) # "null"

\* Fault variant of SwipeEndTabs: the progress > threshold test is lost, any
\* release with a direction performs the tab action
SwipeEndTabsIgnoresThreshold(a, c, ts, t) ==
    IF ~(SwipeEndRuns(a, c) /\ HasActiveTab(ts) /\ ActualDirection(a, ts) # "null")
    THEN ts
    ELSE IF ActualDirection(a, ts) = "left"
         THEN IF CurrentIndex(ts) = Len(ts) - 1
              THEN createNewTab(ts, t)
              ELSE switchToTab(ts, CurrentIndex(ts) + 1)
         ELSE switchToTab(ts, CurrentIndex(ts) - 1)

\* The task after handleSwipeEnd; t is Date.now() as createNewTab reads it
SwipeEndTabs(a, c, ts, t) ==
    IF ~SwipeEndCommits(a, c, ts)
    THEN ts
    ELSE LET currentIndex == CurrentIndex(ts)
             actualDirection == ActualDirection(a, ts)
             nextIndex == IF actualDirection = "left"
                          THEN IF currentIndex = Len(ts) - 1
                               THEN currentIndex ELSE currentIndex + 1
                          ELSE currentIndex - 1
             shouldCreateTab ==
                 actualDirection = "left" /\ currentIndex = Len(ts) - 1
         IN  IF shouldCreateTab THEN createNewTab(ts, t)
             ELSE switchToTab(ts, nextIndex)

\* The drag state after handleSwipeEnd
handleSwipeEnd(a, c, ts) ==
    IF ~SwipeEndRuns(a, c)
    THEN a
    ELSE LET a1 == [a EXCEPT !.isDragging = FALSE,
                             !.transitionTimeoutRef = "null",
                             !.gestureStartIndex = -1]
         IN  IF ~HasActiveTab(ts)
             THEN [SetProgress(a1, 0) EXCEPT !.dragDirection = "null"]
             ELSE IF SwipeEndCommits(a, c, ts)
                  THEN [a1 EXCEPT !.isTransitioning = TRUE,
                                  !.transitionTimeoutRef = "commit",
                                  !.rafAnimate = @ + 1]
                  ELSE [a1 EXCEPT !.isTransitioning = TRUE,
                                  !.transitionTimeoutRef = "snap",
                                  !.animation = "toZero"]

\* The callbacks of earlier releases that are still to run: the pending
\* requestAnimationFrame callbacks and the running animation.  The model lets
\* a release start a further chain of callbacks only below a bound.
PendingCallbacks(a) ==
    a.rafAnimate + (IF a.animation = "none" THEN 0 ELSE 1)
        + a.rafCommitReset + a.rafSnapReset

SwipeEndWithinBound(a, ts, bound) ==
    \/ ~SwipeEndRuns(a, a)
    \/ ~HasActiveTab(ts)
    \/ IF SwipeEndCommits(a, a, ts)
       THEN PendingCallbacks(a) < bound
       ELSE PendingCallbacks([a EXCEPT !.animation = "none"]) < bound

\* The safety timeouts of handleSwipeEnd
CommitTimeout(a) ==
    [SetProgress(a, 0) EXCEPT !.dragDirection = "null",
                              !.isTransitioning = FALSE,
                              !.isDragging = FALSE,
                              !.transitionTimeoutRef = "null",
                              !.gestureStartIndex = -1]

SnapBackTimeout(a) ==
    [SetProgress(a, 0) EXCEPT !.dragDirection = "null",
                              !.isTransitioning = FALSE,
                              !.transitionTimeoutRef = "null"]

\* requestAnimationFrame(() => animate(dragProgress, 1, ...)): a new animation
\* of a motion value replaces the one that is running
StartCommitAnimation(a) ==
    [a EXCEPT !.rafAnimate = @ - 1, !.animation = "toOne"]

\* The animation reaches its target and runs onComplete, which clears the
\* timeout and schedules the reset behind requestAnimationFrame
AnimationComplete(a) ==
    LET target == IF a.animation = "toOne" THEN ViewportWidth ELSE 0
        a1 == [SetProgress(a, target) EXCEPT !.animation = "none",
                                            !.transitionTimeoutRef = "null"]
    IN  IF a.animation = "toOne"
        THEN [a1 EXCEPT !.rafCommitReset = @ + 1]
        ELSE [a1 EXCEPT !.rafSnapReset = @ + 1]

\* The innermost requestAnimationFrame callback of the commit path
CommitReset(a) ==
    [SetProgress(a, 0) EXCEPT !.dragDirection = "null",
                              !.isTransitioning = FALSE,
                              !.rafCommitReset = @ - 1]

\* The requestAnimationFrame callback of the snap-back path
SnapBackReset(a) ==
    [a EXCEPT !.dragDirection = "null",
              !.isTransitioning = FALSE,
              !.rafSnapReset = @ - 1]

----------------------------------------------------------------------------
\* TabBar.tsx: the pointer handlers.  b holds the gesture refs, and in
\* swipeStarted what onSwipeStart returned to this gesture ("null" before it
\* is called): the local started of handlePointerMove, kept for the rest of
\* the gesture.  swipeUpCalls and swipeUpDeltaY are history fields: how often
\* onSwipeUp was called since the last pointer-down (counted up to MaxCalls)
\* and the deltaY of the last call.

InitBar ==
    [ isGestureActive |-> FALSE, clickStartX |-> 0, clickStartY |-> 0,
      hasDragged |-> FALSE, dragDirectionLock |-> "null",
      hasTriggeredSwipeUp |-> FALSE, swipeStarted |-> "null",
      swipeUpCalls |-> 0, swipeUpDeltaY |-> 0 ]

handlePointerDown(b, c, x, y) ==
    IF c.isTransitioning
    THEN b
    ELSE [ isGestureActive |-> TRUE, clickStartX |-> x, clickStartY |-> y,
           hasDragged |-> FALSE, dragDirectionLock |-> "null",
           hasTriggeredSwipeUp |-> FALSE, swipeStarted |-> "null",
           swipeUpCalls |-> 0, swipeUpDeltaY |-> 0 ]

\* The lock after the first part of handlePointerMove
DirectionLock(b, x, y) ==
    LET deltaX == x - b.clickStartX
        deltaY == y - b.clickStartY
    IN  IF b.dragDirectionLock = "null"
           /\ (Abs(deltaX) > LockThreshold \/ Abs(deltaY) > LockThreshold)
        THEN IF Abs(deltaX) > Abs(deltaY) THEN "horizontal" ELSE "vertical"
        ELSE b.dragDirectionLock

PointerMoveRuns(b, c) == b.isGestureActive /\ ~c.isTransitioning

\* handlePointerMove calls onSwipeUp
PointerMoveSwipesUp(b, c, x, y) ==
    /\ PointerMoveRuns(b, c)
    /\ DirectionLock(b, x, y) = "vertical"
    /\ y - b.clickStartY < -SwipeUpThreshold
    /\ ~b.hasTriggeredSwipeUp

\* The refs of TabBar after handlePointerMove; a is the drag state of App
\* that onSwipeStart reads
handlePointerMove(b, a, c, x, y) ==
    IF ~PointerMoveRuns(b, c)
    THEN b
    ELSE LET lock == DirectionLock(b, x, y)
             b1 == [b EXCEPT !.dragDirectionLock = lock]
         IN  IF lock = "horizontal"
             THEN IF ~b.hasDragged /\ Abs(x - b.clickStartX) > DirectionThreshold
                  THEN [b1 EXCEPT !.hasDragged = TRUE,
                                  !.swipeStarted =
                                      IF SwipeStartAccepts(a, c)
                                      THEN "true" ELSE "false"]
                  ELSE b1
             ELSE IF lock = "vertical"
                  THEN IF PointerMoveSwipesUp(b, c, x, y)
                       THEN [b1 EXCEPT !.hasDragged = TRUE,
                                       !.hasTriggeredSwipeUp = TRUE,
                                       !.swipeUpCalls = Min(@ + 1, MaxCalls),
                                       !.swipeUpDeltaY = y - b.clickStartY]
                       ELSE [b1 EXCEPT !.hasDragged = TRUE]
                  ELSE b1

\* The drag state of App after handlePointerMove: onSwipeStart and onSwipeMove
\* as TabBar calls them
PointerMoveApp(b, a, c, ts, x, y) ==
    IF ~PointerMoveRuns(b, c) \/ DirectionLock(b, x, y) # "horizontal"
    THEN a
    ELSE IF ~b.hasDragged /\ Abs(x - b.clickStartX) > DirectionThreshold
         THEN IF SwipeStartAccepts(a, c)
              THEN handleSwipeMove(
                       AcceptedSwipeStart(a, c, ts, b.clickStartX), c, ts, x)
              ELSE a
         ELSE IF b.hasDragged
              THEN handleSwipeMove(a, c, ts, x)
              ELSE a

\* handlePointerUp (also bound to onPointerCancel) calls onSwipeEnd
PointerUpEndsSwipe(b) ==
    b.isGestureActive /\ b.hasDragged /\ b.dragDirectionLock = "horizontal"

handlePointerUp(b) ==
    IF ~b.isGestureActive
    THEN b
    ELSE [b EXCEPT !.isGestureActive = FALSE, !.hasDragged = FALSE,
                   !.dragDirectionLock = "null",
                   !.hasTriggeredSwipeUp = FALSE,
                   !.swipeStarted = "null",
                   !.swipeUpCalls = 0, !.swipeUpDeltaY = 0]

----------------------------------------------------------------------------
\* TabBar.tsx: the tab-name editor.  A text is kept as its trimmed core and
\* whether white space surrounds the core: "" with padding is a text of white
\* space only.  The names of tabs carry no surrounding white space.

EmptyText == [core |-> "", padded |-> FALSE]

TextOf(name) == [core |-> name, padded |-> FALSE]

\* String.prototype.trim
Trim(text) == text.core

InitEditor ==
    [ isEditing |-> FALSE, editingText |-> EmptyText, originalName |-> "" ]


\* The timeout callback of handlePointerUp after a click on the tab name
StartEditing(e, ts) ==
    [ isEditing |-> TRUE,
      editingText |-> TextOf(ts[DisplayedTabIndex(ts) + 1].name),
      originalName |-> ts[DisplayedTabIndex(ts) + 1].name ]

handleNameChange(e, text) == [e EXCEPT !.editingText = text]

\* handleNameKeyDown with Escape
CancelEditing(e) == [e EXCEPT !.isEditing = FALSE, !.editingText = EmptyText]

\* saveTabName calls onTabNameChange
SaveTabNameChanges(e, ts) ==
    /\ DisplayedTabIndex(ts) >= 0
    /\ Trim(e.editingText) # ""
    /\ Trim(e.editingText) # e.originalName

saveTabNameTabs(e, ts) ==
    IF SaveTabNameChanges(e, ts)
    THEN handleTabNameChange(ts, ts[DisplayedTabIndex(ts) + 1].id,
                             Trim(e.editingText))
    ELSE ts

saveTabName(e, ts) ==
    IF DisplayedTabIndex(ts) < 0
    THEN e
    ELSE [e EXCEPT !.isEditing = FALSE, !.editingText = EmptyText]

----------------------------------------------------------------------------
\* StandaloneTabBar.tsx: the pointer handlers of its TabBar.  s holds the
\* refs, and fields that are not state of the program: pointerIsDown, the
\* touch pointer is on the screen (captured by the bar from pointerdown to
\* pointerup), and gestureLock, the first value directionLocked took since
\* the pointer went down; swipeUpCalls and swipeUpDeltaY are as in TabBar.tsx.

InitSBar ==
    [ dragStartX |-> 0, dragStartY |-> 0, isDragging |-> FALSE,
      directionLocked |-> "null",
      pointerIsDown |-> FALSE, gestureLock |-> "null",
      swipeUpCalls |-> 0, swipeUpDeltaY |-> 0 ]

StandalonePointerDown(s, x, y) ==
    [ dragStartX |-> x, dragStartY |-> y, isDragging |-> FALSE,
      directionLocked |-> "null",
      pointerIsDown |-> TRUE, gestureLock |-> "null",
      swipeUpCalls |-> 0, swipeUpDeltaY |-> 0 ]

StandaloneDirectionLock(s, x, y) ==
    LET deltaX == x - s.dragStartX
        deltaY == y - s.dragStartY
    IN  IF s.directionLocked = "null"
           /\ (Abs(deltaX) > StandaloneLockThreshold
               \/ Abs(deltaY) > StandaloneLockThreshold)
        THEN IF Abs(deltaY) > Abs(deltaX) THEN "vertical" ELSE "horizontal"
        ELSE s.directionLocked

StandaloneMoveSwipesUp(s, x, y) ==
    /\ StandaloneDirectionLock(s, x, y) = "vertical"
    /\ y - s.dragStartY < -StandaloneSwipeUpThreshold

StandalonePointerMove(s, a, c, x, y) ==
    LET lock == StandaloneDirectionLock(s, x, y)
        s1 == [s EXCEPT !.gestureLock = IF @ = "null" THEN lock ELSE @]
    IN  IF StandaloneMoveSwipesUp(s, x, y)
        THEN [s1 EXCEPT !.isDragging = FALSE, !.directionLocked = "null",
                        !.swipeUpCalls = Min(@ + 1, MaxCalls),
                        !.swipeUpDeltaY = y - s.dragStartY]
        ELSE IF lock = "horizontal"
             THEN [s1 EXCEPT !.directionLocked = lock,
                             !.isDragging = @ \/ SwipeStartAccepts(a, c)]
             ELSE [s1 EXCEPT !.directionLocked = lock]

StandaloneMoveApp(s, a, c, ts, x, y) ==
    IF StandaloneMoveSwipesUp(s, x, y)
       \/ StandaloneDirectionLock(s, x, y) # "horizontal"
    THEN a
    ELSE IF ~s.isDragging
         THEN IF SwipeStartAccepts(a, c)
              THEN handleSwipeMove(AcceptedSwipeStart(a, c, ts, x), c, ts, x)
              ELSE a
         ELSE handleSwipeMove(a, c, ts, x)

StandalonePointerUp(s) ==
    [s EXCEPT !.isDragging = FALSE, !.directionLocked = "null",
              !.pointerIsDown = FALSE, !.gestureLock = "null",
              !.swipeUpCalls = 0, !.swipeUpDeltaY = 0]

----------------------------------------------------------------------------
\* Persistence: the JSON text on the wire, the two routes of the server, the
\* client functions fetchTasks and saveTasks, and the loading of App

Undefined == "undefined"

JsonValue(type, value) == [type |-> type, value |-> value]

\* The value of the last member of a JSON object with the key, as JSON.parse
\* keeps it; Undefined when the object has no such member
Member(members, key) ==
    LET at == { i \in 1..Len(members) : members[i][1] = key }
    IN  IF at = {} THEN JsonValue(Undefined, Undefined)
        ELSE members[CHOOSE i \in at : \A j \in at : j <= i][2]

\* Fault variant of stringifyTab: the canvas type is left out
stringifyTabWithoutCanvasType(tab) ==
    << <<"id", JsonValue("string", tab.id)>>,
       <<"name", JsonValue("string", tab.name)>>,
       <<"createdAt", JsonValue("number", tab.createdAt)>>,
       <<"isActive", JsonValue("boolean", tab.isActive)>>,
       <<"commentCount", JsonValue("number", tab.commentCount)>> >>

\* JSON.stringify of a Tab: the members in the order of the properties
stringifyTab(tab) ==
    << <<"id", JsonValue("string", tab.id)>>,
       <<"name", JsonValue("string", tab.name)>>,
       <<"canvasType", IF tab.canvasType = "null"
                       THEN JsonValue("null", "null")
                       ELSE JsonValue("string", tab.canvasType)>>,
       <<"createdAt", JsonValue("number", tab.createdAt)>>,
       <<"isActive", JsonValue("boolean", tab.isActive)>>,
       <<"commentCount", JsonValue("number", tab.commentCount)>> >>

parseTab(members) ==
    [ id |-> Member(members, "id").value,
      name |-> Member(members, "name").value,
      canvasType |-> IF Member(members, "canvasType").type = "null"
                     THEN "null"
                     ELSE Member(members, "canvasType").value,
      createdAt |-> Member(members, "createdAt").value,
      isActive |-> Member(members, "isActive").value,
      commentCount |-> Member(members, "commentCount").value ]

stringifyTask(task) ==
    << <<"id", JsonValue("string", task.id)>>,
       <<"name", JsonValue("string", task.name)>>,
       <<"tabs", JsonValue("array",
                    [i \in 1..Len(task.tabs) |-> stringifyTab(task.tabs[i])])>> >>

parseTask(members) ==
    LET items == Member(members, "tabs").value
    IN  [ id |-> Member(members, "id").value,
          name |-> Member(members, "name").value,
          tabs |-> [i \in 1..Len(items) |-> parseTab(items[i])] ]

\* JSON.stringify and JSON.parse of an array of tasks
stringifyTasks(tasks) == [i \in 1..Len(tasks) |-> stringifyTask(tasks[i])]
parseTasks(text) == [i \in 1..Len(text) |-> parseTask(text[i])]

\* The server.  kv is what is stored under TASKS_KEY; store is "ok" or
\* "throws" (the KV store fails).
NoValue == [stored |-> FALSE, text |-> << >>]
Stored(text) == [stored |-> TRUE, text |-> text]

\* A response with its status and the JSON object of its body
JsonBody(success, error, hasTasks, tasks) ==
    [isJson |-> TRUE, success |-> success, error |-> error,
     hasTasks |-> hasTasks, tasks |-> tasks]

NotJson ==
    [isJson |-> FALSE, success |-> FALSE, error |-> Undefined,
     hasTasks |-> FALSE, tasks |-> << >>]

HttpResponse(status, json) == [status |-> status, json |-> json]

\* GET /tasks
serverGetTasks(kv, store) ==
    IF store = "throws"
    THEN HttpResponse(500, JsonBody(FALSE, "Error: kv", FALSE, << >>))
    ELSE IF ~kv.stored
         THEN HttpResponse(200, JsonBody(TRUE, Undefined, TRUE, << >>))
         ELSE HttpResponse(200, JsonBody(TRUE, Undefined, TRUE,
                                         stringifyTasks(parseTasks(kv.text))))

\* POST /tasks with the body { tasks }: the response, and what is stored
\* afterwards
serverPostTasks(kv, store, body) ==
    IF ~body.hasTasks
    THEN HttpResponse(400, JsonBody(FALSE, "tasks array is required", FALSE, << >>))
    ELSE IF store = "throws"
         THEN HttpResponse(500, JsonBody(FALSE, "Error: kv", FALSE, << >>))
         ELSE HttpResponse(200, JsonBody(TRUE, Undefined, FALSE, << >>))

serverPostStores(kv, store, body) ==
    IF ~body.hasTasks \/ store = "throws"
    THEN kv
    ELSE Stored(stringifyTasks(parseTasks(body.tasks)))

\* What fetch() gives the client for a response of the server: the network
\* delivers it, fails (fetch rejects), or something on the way answers in
\* its place with a body that is not JSON or with success: false
Networks == {"delivers", "fails", "notJson", "refuses", "refusesWithoutError"}
Stores == {"ok", "throws"}

Fetched(network, response) ==
    CASE network = "delivers" -> [rejects |-> FALSE, response |-> response]
      [] network = "fails" -> [rejects |-> TRUE, response |-> response]
      [] network = "notJson" ->
            [rejects |-> FALSE, response |-> HttpResponse(200, NotJson)]
      [] network = "refuses" ->
            [rejects |-> FALSE,
             response |-> HttpResponse(200, JsonBody(FALSE, "refused", FALSE, << >>))]
      [] network = "refusesWithoutError" ->
            [rejects |-> FALSE,
             response |-> HttpResponse(200, JsonBody(FALSE, Undefined, FALSE, << >>))]

\* The try block of fetchTasks and of saveTasks up to the test of
\* result.success: the error it throws, Undefined when it throws none
ThrownBy(fetched, unknown) ==
    IF fetched.rejects THEN "TypeError: Failed to fetch"
    ELSE IF fetched.response.status < 200 \/ fetched.response.status > 299
         THEN "Error: HTTP error! status: " \o ToString(fetched.response.status)
         ELSE IF ~fetched.response.json.isJson
              THEN "SyntaxError: Unexpected token"
              ELSE IF ~fetched.response.json.success
                   THEN IF fetched.response.json.error # Undefined
                        THEN "Error: " \o fetched.response.json.error
                        ELSE "Error: " \o unknown
                   ELSE Undefined

\* What the promise of fetchTasks or saveTasks settles to; tasks is empty
\* where the object has no tasks
Settled(settled, success, tasks, error) ==
    [settled |-> settled, success |-> success, tasks |-> tasks, error |-> error]

\* result.tasks || []
ResultTasks(json) == IF json.hasTasks THEN parseTasks(json.tasks) ELSE << >>

\* Fault variant of fetchTasks: no catch, the error rejects the promise
fetchTasksUncaught(fetched) ==
    LET error == ThrownBy(fetched, "Unknown error fetching tasks")
    IN  IF error # Undefined
        THEN Settled("rejected", FALSE, << >>, error)
        ELSE Settled("resolved", TRUE, ResultTasks(fetched.response.json),
                     Undefined)

fetchTasks(fetched) ==
    LET error == ThrownBy(fetched, "Unknown error fetching tasks")
    IN  IF error # Undefined
        THEN Settled("resolved", FALSE, << >>, error)
        ELSE Settled("resolved", TRUE, ResultTasks(fetched.response.json),
                     Undefined)

\* The body of the request of saveTasks
saveTasksBody(tasks) == [hasTasks |-> TRUE, tasks |-> stringifyTasks(tasks)]

saveTasks(fetched) ==
    LET error == ThrownBy(fetched, "Unknown error saving tasks")
    IN  IF error # Undefined
        THEN Settled("resolved", FALSE, << >>, error)
        ELSE Settled("resolved", TRUE, << >>, Undefined)

\* The task of App: tabs holds task.tabs
TaskOf(pg, ts) == [id |-> pg.taskId, name |-> pg.taskName, tabs |-> ts]

NoResult == Settled("none", FALSE, << >>, Undefined)

\* History of the requests: written is the array of tasks of the last
\* request the server stored, fetchedOver is written as it was when the last
\* fetchTasks was answered, fetchHealthy whether the network delivered that
\* answer and the KV store worked, and lastFetch and lastSave are what the
\* last fetchTasks and the last saveTasks settled to
NoHistory ==
    [ written |-> << >>, fetchedOver |-> << >>, fetchHealthy |-> FALSE,
      lastFetch |-> NoResult, lastSave |-> NoResult ]

\* App once the task is loaded and shown, with nothing in flight
LoadedPage ==
    [ isLoading |-> FALSE, error |-> "null", hasTask |-> TRUE,
      taskId |-> 0, taskName |-> "Untitled Task 1",
      fetchPending |-> FALSE, requests |-> << >>, kv |-> NoValue,
      history |-> NoHistory ]

\* App when it mounts: the initial values of useState, and the load effect
\* has called fetchTasks
MountedPage(kv, history) ==
    [ isLoading |-> TRUE, error |-> "null", hasTask |-> FALSE,
      taskId |-> 0, taskName |-> "",
      fetchPending |-> TRUE, requests |-> << >>, kv |-> kv,
      history |-> history ]

\* The render of App shows the tab bar, the canvas and the switcher
PageShown(pg) == ~pg.isLoading /\ pg.error = "null" /\ pg.hasTask

----------------------------------------------------------------------------
\* The state machine

\* Date.now(): the last reading or a later one
ClockReadings == { t \in now..(now + 1) : t <= MaxClock }

TabIds == { tabs[i].id : i \in 1..Len(tabs) }

\* The operations on the task take their inputs as parameters here: an
\* action of Spec leaves lastOp alone, an action of SpecTabs records the
\* operation in it.

\* DraggableAddressBar (part_000) when it mounts, with its props.  offsetX
\* is a quotient, kept as <<numerator, denominator>>; the three calls
\* fields and releasedDirection are history: the callbacks the last
\* handleDragEnd invoked and the direction lock it found.
InitAddressBar(isFirstTab, isSingleTab) ==
    [ isFirstTab |-> isFirstTab, isSingleTab |-> isSingleTab,
      isDragging |-> FALSE, dragStartX |-> 0, dragStartY |-> 0,
      dragCurrentX |-> 0, dragCurrentY |-> 0, dragDirection |-> "null",
      offsetX |-> <<0, 1>>, offsetY |-> 0, isAnimating |-> FALSE,
      swipeLeftCalls |-> 0, swipeRightCalls |-> 0, swipeUpCalls |-> 0,
      releasedDirection |-> "null" ]

\* No card is animating out
NoCard == [present |-> FALSE, id |-> -1, tabs |-> << >>]

NoOp == [op |-> "none", pre |-> << >>, id |-> -1, text |-> ""]

\* The operation op with the inputs id and text is applied to tabs
Recorded(op, id, text) == [op |-> op, pre |-> tabs, id |-> id, text |-> text]

Init ==
    /\ now = 0
    /\ tabs = createDefaultTask(0)
    /\ crashed = FALSE
    /\ isSwitcherOpen = FALSE
    /\ app = InitApp
    /\ bar = InitBar
    /\ sbar = InitSBar
    /\ editor = InitEditor
    /\ lastOp = NoOp
    /\ page = LoadedPage
    /\ exiting = NoCard
    /\ addressBar = InitAddressBar(TRUE, TRUE)

\* The switcher button of the tab bar (not reachable under the overlay or
\* during a transition) and the Done button of the switcher
SwitcherToggle ==
    /\ ~crashed
    /\ PageShown(page)
    /\ ~editor.isEditing
    /\ isSwitcherOpen \/ ~app.isTransitioning
    /\ isSwitcherOpen' = ~isSwitcherOpen
    /\ UNCHANGED <<tabs, now, crashed, app, bar, sbar, editor, lastOp, page, exiting, addressBar>>

\* The New Tab button of TabSwitcher calls onNewTab and onClose
SwitcherNewTabAt(t) ==
    /\ ~crashed
    /\ isSwitcherOpen
    /\ Len(tabs) < MaxTabs
    /\ now' = t
    /\ tabs' = createNewTab(tabs, t)
    /\ isSwitcherOpen' = ~isSwitcherOpen
    /\ app' = Render(app, tabs')

SwitcherNewTab ==
    /\ \E t \in ClockReadings : SwitcherNewTabAt(t)
    /\ UNCHANGED <<crashed, bar, sbar, editor, lastOp, page, exiting, addressBar>>

\* The New Tab button of the standalone switcher calls onNewTab only
StandaloneNewTabAt(t) ==
    /\ ~crashed
    /\ isSwitcherOpen
    /\ Len(tabs) < MaxTabs
    /\ now' = t
    /\ tabs' = createNewTab(tabs, t)
    /\ isSwitcherOpen' = isSwitcherOpen
    /\ app' = Render(app, tabs')

StandaloneNewTab ==
    /\ \E t \in ClockReadings : StandaloneNewTabAt(t)
    /\ UNCHANGED <<crashed, bar, sbar, editor, lastOp, page, exiting, addressBar>>

\* A tab card of the switcher is tapped
TabSelectOf(tabId) ==
    /\ ~crashed
    /\ isSwitcherOpen
    /\ tabs' = handleTabSelect(tabs, tabId)
    /\ isSwitcherOpen' = FALSE
    /\ app' = Render(app, tabs')

TabSelect ==
    /\ \E tabId \in TabIds : TabSelectOf(tabId)
    /\ UNCHANGED <<now, crashed, bar, sbar, editor, lastOp, page, exiting, addressBar>>

\* The close button of a tab card
TabCloseOf(tabId, t) ==
    /\ ~crashed
    /\ isSwitcherOpen
    /\ IF TabCloseThrows(tabs, tabId)
       THEN crashed' = TRUE /\ UNCHANGED <<tabs, now>>
       ELSE /\ tabs' = handleTabClose(tabs, tabId, t)
            /\ now' = IF Len(tabs) = 1 THEN t ELSE now
            /\ UNCHANGED crashed
    /\ app' = Render(app, tabs')

TabClose ==
    /\ \E tabId \in TabIds, t \in ClockReadings : TabCloseOf(tabId, t)
    /\ UNCHANGED <<isSwitcherOpen, bar, sbar, editor, lastOp, page, exiting, addressBar>>

\* A canvas type button of BlankTab, which CanvasArea renders for a current
\* tab without a canvas type; the canvas is under the switcher overlay while
\* it is open and takes no pointer events during a transition
CanvasTypeSelectOf(type) ==
    /\ ~crashed
    /\ ~isSwitcherOpen
    /\ ~editor.isEditing
    /\ ~app.isTransitioning
    /\ HasActiveTab(tabs)
    /\ tabs[DisplayedTabIndex(tabs) + 1].canvasType = "null"
    /\ tabs' = handleCanvasTypeSelect(tabs, type)

CanvasTypeSelect ==
    /\ \E type \in CanvasTypes : CanvasTypeSelectOf(type)
    /\ UNCHANGED <<now, crashed, isSwitcherOpen, app, bar, sbar, editor, lastOp,
                   page, exiting, addressBar>>

\* --- TabBar.tsx tab-name editor ---
\* While the input has the focus a pointer event elsewhere first blurs it,
\* which commits the edit: no other operation runs while isEditing.

\* A click on the tab name
EditTabName ==
    /\ ~crashed
    /\ ~isSwitcherOpen
    /\ ~app.isTransitioning
    /\ app.dragDirection = "null"
    /\ ~bar.isGestureActive
    /\ ~editor.isEditing
    /\ DisplayedTabIndex(tabs) >= 0
    /\ editor' = StartEditing(editor, tabs)
    /\ UNCHANGED <<tabs, now, crashed, isSwitcherOpen, app, bar, sbar, lastOp,
                   page, exiting, addressBar>>

\* The text typed into the input
EditTexts ==
    { [core |-> c, padded |-> p] :
        c \in {"", editor.originalName} \cup NewNames, p \in BOOLEAN }

TypeTabName ==
    /\ ~crashed
    /\ editor.isEditing
    /\ \E text \in EditTexts : editor' = handleNameChange(editor, text)
    /\ UNCHANGED <<tabs, now, crashed, isSwitcherOpen, app, bar, sbar, lastOp,
                   page, exiting, addressBar>>

\* Escape
CancelTabName ==
    /\ ~crashed
    /\ editor.isEditing
    /\ editor' = CancelEditing(editor)
    /\ UNCHANGED <<tabs, now, crashed, isSwitcherOpen, app, bar, sbar, lastOp,
                   page, exiting, addressBar>>

\* Enter or blur: saveTabName, which calls handleTabNameChange of App
TabNameChange ==
    /\ ~crashed
    /\ editor.isEditing
    /\ tabs' = saveTabNameTabs(editor, tabs)
    /\ editor' = saveTabName(editor, tabs)
    /\ lastOp' = Recorded("rename",
                          IF DisplayedTabIndex(tabs) >= 0
                          THEN tabs[DisplayedTabIndex(tabs) + 1].id ELSE -1,
                          Trim(editor.editingText))
    /\ UNCHANGED <<now, crashed, isSwitcherOpen, app, bar, sbar, page, exiting, addressBar>>

\* --- the operations on the task, recorded ---

RecordedNewTab ==
    /\ \E t \in ClockReadings :
        /\ SwitcherNewTabAt(t)
        /\ lastOp' = Recorded("newTab", t, "")
    /\ UNCHANGED <<crashed, bar, sbar, editor, page, exiting, addressBar>>

RecordedTabSelect ==
    /\ \E tabId \in TabIds :
        /\ TabSelectOf(tabId)
        /\ lastOp' = Recorded("select", tabId, "")
    /\ UNCHANGED <<now, crashed, bar, sbar, editor, page, exiting, addressBar>>

RecordedTabClose ==
    /\ \E tabId \in TabIds, t \in ClockReadings :
        /\ TabCloseOf(tabId, t)
        /\ lastOp' = Recorded("close", tabId, "")
    /\ UNCHANGED <<isSwitcherOpen, bar, sbar, editor, page, exiting, addressBar>>

RecordedCanvasTypeSelect ==
    /\ \E type \in CanvasTypes :
        /\ CanvasTypeSelectOf(type)
        /\ lastOp' = Recorded("canvasType", -1, type)
    /\ UNCHANGED <<now, crashed, isSwitcherOpen, app, bar, sbar, editor, page, exiting, addressBar>>

\* --- TabBar.tsx pointer events ---

PointerDown ==
    /\ ~crashed
    /\ ~isSwitcherOpen
    /\ \E pos \in DownPositions : bar' = handlePointerDown(bar, app, pos[1], pos[2])
    /\ UNCHANGED <<tabs, now, crashed, isSwitcherOpen, app, sbar, editor, lastOp,
                   page, exiting, addressBar>>

PointerMove ==
    /\ ~crashed
    /\ \E x \in XPositions, y \in YPositions :
        /\ bar' = handlePointerMove(bar, app, app, x, y)
        /\ app' = Render(PointerMoveApp(bar, app, app, tabs, x, y), tabs)
        /\ isSwitcherOpen' = (isSwitcherOpen \/ PointerMoveSwipesUp(bar, app, x, y))
    /\ UNCHANGED <<tabs, now, crashed, sbar, editor, lastOp, page, exiting, addressBar>>

\* pointerup and pointercancel, with at most bound - 1 callbacks of earlier
\* releases still to run when handleSwipeEnd starts a further chain
PointerUpWithin(bound) ==
    /\ ~crashed
    /\ bar' = handlePointerUp(bar)
    /\ IF PointerUpEndsSwipe(bar)
       THEN /\ SwipeEndWithinBound(app, tabs, bound)
            /\ \E t \in ClockReadings :
                /\ tabs' = SwipeEndTabs(app, app, tabs, t)
                /\ now' = IF Len(tabs') > Len(tabs) THEN t ELSE now
                /\ Len(tabs') <= MaxTabs
            /\ app' = Render(handleSwipeEnd(app, app, tabs), tabs')
       ELSE UNCHANGED <<app, tabs, now>>
    /\ UNCHANGED <<crashed, isSwitcherOpen, sbar, editor, lastOp, page, exiting, addressBar>>

\* A release once the callbacks of the earlier releases have all run
PointerUp == PointerUpWithin(MaxPending)

\* A release while callbacks of an earlier release are still to run
PointerUpRacing == PointerUpWithin(MaxRacing)

\* --- StandaloneTabBar.tsx pointer events ---

\* A touch on the bar: the bar is under the switcher overlay while the
\* switcher is open and takes no pointer events during a transition
StandaloneDown ==
    /\ ~crashed
    /\ ~isSwitcherOpen
    /\ ~app.isTransitioning
    /\ ~sbar.pointerIsDown
    /\ \E pos \in DownPositions : sbar' = StandalonePointerDown(sbar, pos[1], pos[2])
    /\ UNCHANGED <<tabs, now, crashed, isSwitcherOpen, app, bar, editor, lastOp,
                   page, exiting, addressBar>>

\* The captured pointer moves
StandaloneMove ==
    /\ ~crashed
    /\ sbar.pointerIsDown
    /\ \E x \in StandaloneXPositions, y \in YPositions :
        /\ sbar' = StandalonePointerMove(sbar, app, app, x, y)
        /\ app' = Render(StandaloneMoveApp(sbar, app, app, tabs, x, y), tabs)
        /\ isSwitcherOpen' = (isSwitcherOpen \/ StandaloneMoveSwipesUp(sbar, x, y))
    /\ UNCHANGED <<tabs, now, crashed, bar, editor, lastOp, page, exiting, addressBar>>

StandaloneUp ==
    /\ ~crashed
    /\ sbar.pointerIsDown
    /\ sbar' = StandalonePointerUp(sbar)
    /\ IF sbar.isDragging
       THEN /\ SwipeEndWithinBound(app, tabs, MaxPending)
            /\ \E t \in ClockReadings :
                /\ tabs' = SwipeEndTabs(app, app, tabs, t)
                /\ now' = IF Len(tabs') > Len(tabs) THEN t ELSE now
                /\ Len(tabs') <= MaxTabs
            /\ app' = Render(handleSwipeEnd(app, app, tabs), tabs')
       ELSE UNCHANGED <<app, tabs, now>>
    /\ UNCHANGED <<crashed, isSwitcherOpen, bar, editor, lastOp, page, exiting, addressBar>>

\* --- timers and animation callbacks of handleSwipeEnd ---

TransitionTimeout ==
    /\ ~crashed
    /\ app.transitionTimeoutRef # "null"
    /\ app' = Render(IF app.transitionTimeoutRef = "commit"
                     THEN CommitTimeout(app)
                     ELSE SnapBackTimeout(app), tabs)
    /\ UNCHANGED <<tabs, now, crashed, isSwitcherOpen, bar, sbar, editor, lastOp,
                   page, exiting, addressBar>>

AnimationStart ==
    /\ ~crashed
    /\ app.rafAnimate > 0
    /\ app' = StartCommitAnimation(app)
    /\ UNCHANGED <<tabs, now, crashed, isSwitcherOpen, bar, sbar, editor, lastOp,
                   page, exiting, addressBar>>

AnimationEnd ==
    /\ ~crashed
    /\ app.animation # "none"
    /\ app' = AnimationComplete(app)
    /\ UNCHANGED <<tabs, now, crashed, isSwitcherOpen, bar, sbar, editor, lastOp,
                   page, exiting, addressBar>>

CommitResetFrame ==
    /\ ~crashed
    /\ app.rafCommitReset > 0
    /\ app' = Render(CommitReset(app), tabs)
    /\ UNCHANGED <<tabs, now, crashed, isSwitcherOpen, bar, sbar, editor, lastOp,
                   page, exiting, addressBar>>

SnapBackResetFrame ==
    /\ ~crashed
    /\ app.rafSnapReset > 0
    /\ app' = Render(SnapBackReset(app), tabs)
    /\ UNCHANGED <<tabs, now, crashed, isSwitcherOpen, bar, sbar, editor, lastOp,
                   page, exiting, addressBar>>

\* The operations on the task and the switcher, and the callbacks of
\* handleSwipeEnd, which App and StandaloneTabBarApp have in common
Shared ==
    \/ SwitcherToggle
    \/ TabSelect
    \/ TabClose
    \/ TransitionTimeout
    \/ AnimationStart
    \/ AnimationEnd
    \/ CommitResetFrame
    \/ SnapBackResetFrame

\* App with TabBar.tsx and TabSwitcher
Next ==
    \/ Shared
    \/ SwitcherNewTab
    \/ PointerDown
    \/ PointerMove
    \/ PointerUp

Spec == Init /\ [][Next]_vars

\* StandaloneTabBarApp
NextStandalone ==
    \/ Shared
    \/ StandaloneNewTab
    \/ StandaloneDown
    \/ StandaloneMove
    \/ StandaloneUp

\* CanvasArea of StandaloneTabBarApp starts with its own ref at null
InitStandalone ==
    /\ now = 0
    /\ tabs = createDefaultTask(0)
    /\ crashed = FALSE
    /\ isSwitcherOpen = FALSE
    /\ app = [InitApp EXCEPT !.canvasDirectionRef = "null"]
    /\ bar = InitBar
    /\ sbar = InitSBar
    /\ editor = InitEditor
    /\ lastOp = NoOp
    /\ page = LoadedPage
    /\ exiting = NoCard
    /\ addressBar = InitAddressBar(TRUE, TRUE)

SpecStandalone == InitStandalone /\ [][NextStandalone]_vars

\* App when timers and animation frames run: a pending safety timeout fires
\* unless it is cleared, and a requested animation frame is delivered.  That
\* an animation reaches its target and calls onComplete is not assumed.
Fairness ==
    /\ WF_vars(TransitionTimeout)
    /\ WF_vars(AnimationStart)
    /\ WF_vars(CommitResetFrame)
    /\ WF_vars(SnapBackResetFrame)

SpecLive == Init /\ [][Next]_vars /\ Fairness

\* App with TabSwitcher, BlankTab and the tab-name editor of TabBar.tsx: the
\* operations on the task alone, each recorded in lastOp
NextTabs ==
    \/ SwitcherToggle
    \/ RecordedNewTab
    \/ RecordedTabSelect
    \/ RecordedTabClose
    \/ RecordedCanvasTypeSelect
    \/ EditTabName
    \/ TypeTabName
    \/ CancelTabName
    \/ TabNameChange

SpecTabs == Init /\ [][NextTabs]_vars

----------------------------------------------------------------------------
\* TabSwitcher (part_002): AnimatePresence keeps the card of a closed tab
\* mounted for its exit animation, with the props of its last render.  Its
\* onSelect and onClose still call the handlers of that render: handleTabClose
\* reads task of that render, and its updater gets the task of now.  The
\* model has one card animating out at a time; the switcher that closes
\* unmounts with its cards.

\* Date.now() for the operations of the cards
MaxCardClock == 2
CardClockReadings == { t \in now..(now + 1) : t <= MaxCardClock }

\* c is task.tabs of the card's last render
ExitingCard(c, tabId) == [present |-> TRUE, id |-> tabId, tabs |-> c]

\* handleTabClose of the render with task.tabs = c; ts is prevTask.tabs
ExitingNewActiveIndex(c, ts, tabId) ==
    LET tabIndex == FindIndexById(c, tabId)
    IN  IF tabIndex < Len(FilterOutId(ts, tabId)) THEN tabIndex ELSE tabIndex - 1

ExitingCloseThrows(c, ts, tabId) ==
    /\ Len(c) # 1
    /\ TabCloseIsClosingActive(c, tabId)
    /\ LET k == ExitingNewActiveIndex(c, ts, tabId)
       IN  k < 0 \/ k >= Len(FilterOutId(ts, tabId))

handleExitingTabClose(c, ts, tabId, t) ==
    IF Len(c) = 1
    THEN << NewTab(t) >>
    ELSE LET updatedTabs == FilterOutId(ts, tabId)
         IN  IF TabCloseIsClosingActive(c, tabId)
             THEN [updatedTabs EXCEPT
                     ![ExitingNewActiveIndex(c, ts, tabId) + 1].isActive = TRUE]
             ELSE updatedTabs

\* The close button of a card of the task; the card animates out unless a
\* tab of the new task has its key
LiveCardClose ==
    /\ ~exiting.present
    /\ \E tabId \in TabIds, t \in CardClockReadings :
          /\ TabCloseOf(tabId, t)
          /\ exiting' = IF ~crashed' /\ \A i \in 1..Len(tabs') : tabs'[i].id # tabId
                        THEN ExitingCard(tabs, tabId)
                        ELSE exiting
    /\ UNCHANGED <<isSwitcherOpen, bar, sbar, editor, lastOp, page, addressBar>>

\* A tap on a card of the task
LiveCardSelect ==
    /\ \E tabId \in TabIds : TabSelectOf(tabId)
    /\ exiting' = NoCard
    /\ UNCHANGED <<now, crashed, bar, sbar, editor, lastOp, page, addressBar>>

\* The close button of the card that animates out
ExitingCardClose ==
    /\ ~crashed
    /\ isSwitcherOpen
    /\ exiting.present
    /\ \E t \in CardClockReadings :
          IF ExitingCloseThrows(exiting.tabs, tabs, exiting.id)
          THEN crashed' = TRUE /\ UNCHANGED <<tabs, now>>
          ELSE /\ tabs' = handleExitingTabClose(exiting.tabs, tabs, exiting.id, t)
               /\ now' = IF Len(exiting.tabs) = 1 THEN t ELSE now
               /\ UNCHANGED crashed
    /\ app' = Render(app, tabs')
    /\ UNCHANGED <<isSwitcherOpen, bar, sbar, editor, lastOp, page, exiting, addressBar>>

\* A tap on the card that animates out
ExitingCardSelect ==
    /\ exiting.present
    /\ TabSelectOf(exiting.id)
    /\ exiting' = NoCard
    /\ UNCHANGED <<now, crashed, bar, sbar, editor, lastOp, page, addressBar>>

\* The exit animation has completed: the card is unmounted
ExitComplete ==
    /\ exiting.present
    /\ exiting' = NoCard
    /\ UNCHANGED <<tabs, now, crashed, isSwitcherOpen, app, bar, sbar, editor,
                   lastOp, page, addressBar>>

CardsNewTab ==
    /\ \E t \in CardClockReadings : SwitcherNewTabAt(t)
    /\ exiting' = NoCard
    /\ UNCHANGED <<crashed, bar, sbar, editor, lastOp, page, addressBar>>

\* The switcher button and the Done button, once no card animates out
SettledSwitcherToggle == ~exiting.present /\ SwitcherToggle

NextExitingCards ==
    \/ SettledSwitcherToggle
    \/ CardsNewTab
    \/ LiveCardSelect
    \/ LiveCardClose
    \/ ExitingCardSelect
    \/ ExitingCardClose
    \/ ExitComplete

SpecExitingCards == Init /\ [][NextExitingCards]_vars

----------------------------------------------------------------------------
\* DraggableAddressBar (part_000): the wrapper of the address bar with its
\* own offsets.  The touch and the mouse handlers call the same three
\* functions; the props stay as they are through a behaviour.

SWIPE_THRESHOLD == 60
DIRECTION_THRESHOLD == 15
RUBBER_BAND_RESISTANCE == 3

handleDragStart(d, clientX, clientY) ==
    IF d.isDragging
    THEN d
    ELSE [d EXCEPT !.isDragging = TRUE,
                   !.dragStartX = clientX, !.dragStartY = clientY,
                   !.dragCurrentX = clientX, !.dragCurrentY = clientY,
                   !.dragDirection = "null",
                   !.offsetX = <<0, 1>>, !.offsetY = 0,
                   !.isAnimating = FALSE]

handleDragMove(d, clientX, clientY) ==
    IF ~d.isDragging
    THEN d
    ELSE LET deltaX == clientX - d.dragStartX
             deltaY == clientY - d.dragStartY
             locked ==
                 IF d.dragDirection = "null"
                    /\ (Abs(deltaX) > DIRECTION_THRESHOLD
                        \/ Abs(deltaY) > DIRECTION_THRESHOLD)
                 THEN IF Abs(deltaX) > Abs(deltaY)
                      THEN "horizontal" ELSE "vertical"
                 ELSE d.dragDirection
             d1 == [d EXCEPT !.dragCurrentX = clientX,
                             !.dragCurrentY = clientY,
                             !.dragDirection = locked]
         IN  IF locked = "horizontal"
             THEN [d1 EXCEPT
                     !.offsetX =
                         IF (d.isFirstTab \/ d.isSingleTab) /\ deltaX > 0
                         THEN <<deltaX, RUBBER_BAND_RESISTANCE>>
                         ELSE <<deltaX, 1>>,
                     !.offsetY = 0]
             ELSE IF locked = "vertical"
                  THEN [d1 EXCEPT !.offsetY = IF deltaY < 0 THEN deltaY ELSE 0,
                                  !.offsetX = <<0, 1>>]
                  ELSE d1

\* Fault variant of handleDragEnd: a swipe right calls onSwipeRight on the
\* first and on the only tab as well
handleDragEndWithoutFirstTabTest(d) ==
    IF ~d.isDragging
    THEN d
    ELSE LET deltaX == d.dragCurrentX - d.dragStartX
             deltaY == d.dragCurrentY - d.dragStartY
             swiped == d.dragDirection = "horizontal"
                       /\ Abs(deltaX) > SWIPE_THRESHOLD
         IN  [d EXCEPT
                !.isDragging = FALSE, !.dragDirection = "null",
                !.isAnimating = TRUE, !.offsetX = <<0, 1>>, !.offsetY = 0,
                !.swipeLeftCalls = IF swiped /\ deltaX < 0 THEN 1 ELSE 0,
                !.swipeRightCalls = IF swiped /\ deltaX > 0 THEN 1 ELSE 0,
                !.swipeUpCalls =
                    IF d.dragDirection = "vertical" /\ deltaY < 0
                       /\ Abs(deltaY) > SWIPE_THRESHOLD
                    THEN 1 ELSE 0,
                !.releasedDirection = d.dragDirection]

handleDragEnd(d) ==
    IF ~d.isDragging
    THEN d
    ELSE LET deltaX == d.dragCurrentX - d.dragStartX
             deltaY == d.dragCurrentY - d.dragStartY
             swiped == d.dragDirection = "horizontal"
                       /\ Abs(deltaX) > SWIPE_THRESHOLD
         IN  [d EXCEPT
                !.isDragging = FALSE, !.dragDirection = "null",
                !.isAnimating = TRUE, !.offsetX = <<0, 1>>, !.offsetY = 0,
                !.swipeLeftCalls = IF swiped /\ deltaX < 0 THEN 1 ELSE 0,
                !.swipeRightCalls =
                    IF swiped /\ ~(deltaX < 0) /\ deltaX > 0
                       /\ ~d.isFirstTab /\ ~d.isSingleTab
                    THEN 1 ELSE 0,
                !.swipeUpCalls =
                    IF d.dragDirection = "vertical" /\ deltaY < 0
                       /\ Abs(deltaY) > SWIPE_THRESHOLD
                    THEN 1 ELSE 0,
                !.releasedDirection = d.dragDirection]

InitDraggable ==
    /\ now = 0
    /\ tabs = createDefaultTask(0)
    /\ crashed = FALSE
    /\ isSwitcherOpen = FALSE
    /\ app = InitApp
    /\ bar = InitBar
    /\ sbar = InitSBar
    /\ editor = InitEditor
    /\ lastOp = NoOp
    /\ page = LoadedPage
    /\ exiting = NoCard
    /\ \E isFirstTab \in BOOLEAN, isSingleTab \in BOOLEAN :
          addressBar = InitAddressBar(isFirstTab, isSingleTab)

\* touchstart or mousedown on the wrapper
AddressBarDragStart ==
    /\ \E x \in XPositions, y \in YPositions :
          addressBar' = handleDragStart(addressBar, x, y)
    /\ UNCHANGED <<tabs, now, crashed, isSwitcherOpen, app, bar, sbar, editor,
                   lastOp, page, exiting>>

\* touchmove, or mousemove on the window
AddressBarDragMove ==
    /\ \E x \in XPositions, y \in YPositions :
          addressBar' = handleDragMove(addressBar, x, y)
    /\ UNCHANGED <<tabs, now, crashed, isSwitcherOpen, app, bar, sbar, editor,
                   lastOp, page, exiting>>

\* touchend, touchcancel, or mouseup on the window
AddressBarDragEnd ==
    /\ addressBar' = handleDragEnd(addressBar)
    /\ UNCHANGED <<tabs, now, crashed, isSwitcherOpen, app, bar, sbar, editor,
                   lastOp, page, exiting>>

NextDraggable ==
    \/ AddressBarDragStart
    \/ AddressBarDragMove
    \/ AddressBarDragEnd

SpecDraggable == InitDraggable /\ [][NextDraggable]_vars

----------------------------------------------------------------------------
\* The swipe-to-delete variant: the App whose tab names carry a counter, with
\* the TabSwitcher whose cards are dragged to the left to close a tab.  The
\* switcher has no New Tab button; tabs are created from the tab bar.

DeleteOffset == 100
DragOffsets == {-150, -100, -40}

CountedName(prefix, n) == prefix \o " " \o ToString(n)

\* tab.name.startsWith(prefix), over the names the variant gives to tabs
StartsWith(name, prefix) ==
    name \in { CountedName(prefix, n) : n \in 1..(MaxTabs + 1) }

CountOfPrefix(ts, prefix) ==
    Cardinality({ i \in 1..Len(ts) : StartsWith(ts[i].name, prefix) })

NewCountedTab(ts, t) ==
    [id |-> t, name |-> CountedName("Blank Tab", CountOfPrefix(ts, "Blank Tab") + 1),
     canvasType |-> "null", createdAt |-> t, isActive |-> TRUE,
     commentCount |-> 0]

createCountedDefaultTask(t) ==
    << [id |-> t, name |-> CountedName("Blank Tab", 1), canvasType |-> "null",
        createdAt |-> t, isActive |-> TRUE, commentCount |-> 0] >>

createCountedNewTab(ts, t) ==
    Append([i \in 1..Len(ts) |-> [ts[i] EXCEPT !.isActive = FALSE]],
           NewCountedTab(ts, t))

\* Called with a defined activeTab only
handleCountedCanvasTypeSelect(ts, type) ==
    LET activeId == ts[ActiveTabIndex(ts) + 1].id
        newTabName == CountedName(CanvasTypeName(type),
                                  CountOfPrefix(ts, CanvasTypeName(type)) + 1)
    IN  [i \in 1..Len(ts) |->
            IF ts[i].id = activeId
            THEN [ts[i] EXCEPT !.canvasType = type, !.name = newTabName]
            ELSE ts[i]]

handleCountedTabClose(ts, tabId, t) ==
    IF Len(ts) = 1
    THEN << NewCountedTab(ts, t) >>
    ELSE LET updatedTabs == FilterOutId(ts, tabId)
         IN  IF TabCloseIsClosingActive(ts, tabId)
             THEN [updatedTabs EXCEPT
                     ![TabCloseNewActiveIndex(ts, tabId) + 1].isActive = TRUE]
             ELSE updatedTabs

InitSwipeToDelete ==
    /\ now = 0
    /\ tabs = createCountedDefaultTask(0)
    /\ crashed = FALSE
    /\ isSwitcherOpen = FALSE
    /\ app = InitApp
    /\ bar = InitBar
    /\ sbar = InitSBar
    /\ editor = InitEditor
    /\ lastOp = NoOp
    /\ page = LoadedPage
    /\ exiting = NoCard
    /\ addressBar = InitAddressBar(TRUE, TRUE)

\* A swipe to the left on the tab bar, dragged past the commit threshold and
\* released: a new tab on the last tab, the next tab otherwise
BarSwipeLeft ==
    /\ ~crashed
    /\ ~isSwitcherOpen
    /\ HasActiveTab(tabs)
    /\ IF CurrentIndex(tabs) = Len(tabs) - 1
       THEN /\ Len(tabs) < MaxTabs
            /\ \E t \in ClockReadings :
                /\ now' = t
                /\ tabs' = createCountedNewTab(tabs, t)
       ELSE /\ tabs' = switchToTab(tabs, CurrentIndex(tabs) + 1)
            /\ UNCHANGED now
    /\ app' = Render(app, tabs')
    /\ UNCHANGED <<crashed, isSwitcherOpen, bar, sbar, editor, lastOp, page, exiting, addressBar>>

\* The same to the right: the previous tab, never on the first tab
BarSwipeRight ==
    /\ ~crashed
    /\ ~isSwitcherOpen
    /\ HasActiveTab(tabs)
    /\ CurrentIndex(tabs) > 0
    /\ tabs' = switchToTab(tabs, CurrentIndex(tabs) - 1)
    /\ app' = Render(app, tabs')
    /\ UNCHANGED <<now, crashed, isSwitcherOpen, bar, sbar, editor, lastOp,
                   page, exiting, addressBar>>

CountedCanvasTypeSelect ==
    /\ ~crashed
    /\ ~isSwitcherOpen
    /\ HasActiveTab(tabs)
    /\ tabs[ActiveTabIndex(tabs) + 1].canvasType = "null"
    /\ \E type \in CanvasTypes :
        tabs' = handleCountedCanvasTypeSelect(tabs, type)
    /\ UNCHANGED <<now, crashed, isSwitcherOpen, app, bar, sbar, editor, lastOp,
                   page, exiting, addressBar>>

\* The card of the tab at index k is tapped outside its close button
CardTap ==
    /\ \E k \in 0..(Len(tabs) - 1) : TabSelectOf(tabs[k + 1].id)
    /\ UNCHANGED <<now, crashed, bar, sbar, editor, lastOp, page, exiting, addressBar>>

\* onTabClose of the card at index k: handleTabClose, which leaves
\* isSwitcherOpen alone
CardCloseAt(k, t) ==
    /\ ~crashed
    /\ isSwitcherOpen
    /\ k \in 0..(Len(tabs) - 1)
    /\ IF TabCloseThrows(tabs, tabs[k + 1].id)
       THEN crashed' = TRUE /\ UNCHANGED <<tabs, now>>
       ELSE /\ tabs' = handleCountedTabClose(tabs, tabs[k + 1].id, t)
            /\ now' = IF Len(tabs) = 1 THEN t ELSE now
            /\ UNCHANGED crashed
    /\ UNCHANGED isSwitcherOpen
    /\ app' = Render(app, tabs')

\* The close button of the card stops the click from reaching the card
CardCloseButton ==
    /\ \E k \in 0..(Len(tabs) - 1), t \in ClockReadings : CardCloseAt(k, t)
    /\ UNCHANGED <<bar, sbar, editor, lastOp, page, exiting, addressBar>>

\* The card at index k is dragged by offsetX and released: handleDragEnd
\* closes the tab when the offset is beyond DeleteOffset to the left
CardDragEndAt(k, offsetX, t) ==
    IF offsetX < -DeleteOffset
    THEN CardCloseAt(k, t)
    ELSE /\ ~crashed
         /\ isSwitcherOpen
         /\ k \in 0..(Len(tabs) - 1)
         /\ UNCHANGED <<tabs, now, crashed, isSwitcherOpen, app>>

CardDragEnd ==
    /\ \E k \in 0..(Len(tabs) - 1), offsetX \in DragOffsets, t \in ClockReadings :
        CardDragEndAt(k, offsetX, t)
    /\ UNCHANGED <<bar, sbar, editor, lastOp, page, exiting, addressBar>>

NextSwipeToDelete ==
    \/ SwitcherToggle
    \/ BarSwipeLeft
    \/ BarSwipeRight
    \/ CountedCanvasTypeSelect
    \/ CardTap
    \/ CardCloseButton
    \/ CardDragEnd

SpecSwipeToDelete == InitSwipeToDelete /\ [][NextSwipeToDelete]_vars

----------------------------------------------------------------------------
\* The drag handlers of the older App (the one of the swipe-to-delete
\* variant), called by the address bar with the positions of the pointer.
\* This App has no direction ref and starts its animations at once.

handleOlderSwipeStart(a, c, clientX) ==
    IF c.isTransitioning
    THEN a
    ELSE [a EXCEPT !.isDragging = TRUE,
                   !.dragStartX = clientX,
                   !.lastClientX = clientX,
                   !.dragDirection = "null"]

handleOlderSwipeMove(a, c, ts, clientX) ==
    IF ~a.isDragging \/ c.isTransitioning \/ ~HasActiveTab(ts)
    THEN a
    ELSE LET deltaX == clientX - a.dragStartX
             currentIndex == CurrentIndex(ts)
             a1 == [a EXCEPT !.lastClientX = clientX]
             a2 == IF c.dragDirection = "null" /\ Abs(deltaX) > DirectionThreshold
                   THEN IF deltaX < 0
                        THEN [a1 EXCEPT !.dragDirection = "left"]
                        ELSE IF deltaX > 0 /\ currentIndex > 0
                             THEN [a1 EXCEPT !.dragDirection = "right"]
                             ELSE a1
                   ELSE a1
         IN  IF deltaX < 0
             THEN [a2 EXCEPT !.dragProgress = Min(Abs(deltaX), ViewportWidth)]
             ELSE IF deltaX > 0 /\ currentIndex > 0
                  THEN [a2 EXCEPT !.dragProgress = Min(deltaX, ViewportWidth)]
                  ELSE IF deltaX = 0 THEN [a2 EXCEPT !.dragProgress = 0] ELSE a2

\* The task after handleSwipeEnd of the older App
OlderSwipeEndTabs(a, c, ts, t) ==
    IF ~SwipeEndCommits(a, c, ts)
    THEN ts
    ELSE IF ActualDirection(a, ts) = "left"
         THEN IF CurrentIndex(ts) = Len(ts) - 1
              THEN createCountedNewTab(ts, t)
              ELSE switchToTab(ts, CurrentIndex(ts) + 1)
         ELSE switchToTab(ts, CurrentIndex(ts) - 1)

\* The drag state after handleSwipeEnd of the older App
handleOlderSwipeEnd(a, c, ts) ==
    IF ~SwipeEndRuns(a, c)
    THEN a
    ELSE LET a1 == [a EXCEPT !.isDragging = FALSE,
                             !.transitionTimeoutRef = "null"]
         IN  IF ~HasActiveTab(ts)
             THEN [a1 EXCEPT !.dragProgress = 0, !.dragDirection = "null"]
             ELSE IF SwipeEndCommits(a, c, ts)
                  THEN [a1 EXCEPT !.isTransitioning = TRUE,
                                  !.transitionTimeoutRef = "commit",
                                  !.animation = "toOne"]
                  ELSE [a1 EXCEPT !.isTransitioning = TRUE,
                                  !.transitionTimeoutRef = "snap",
                                  !.animation = "toZero"]

\* Either safety timeout of the older handleSwipeEnd
OlderTimeout(a) ==
    [a EXCEPT !.dragProgress = 0,
              !.dragDirection = "null",
              !.isTransitioning = FALSE,
              !.transitionTimeoutRef = "null"]

\* onComplete of the older animations: the commit path resets behind
\* requestAnimationFrame, the snap-back path at once
OlderAnimationComplete(a) ==
    IF a.animation = "toOne"
    THEN [a EXCEPT !.dragProgress = ViewportWidth,
                   !.animation = "none",
                   !.transitionTimeoutRef = "null",
                   !.rafCommitReset = @ + 1]
    ELSE [a EXCEPT !.dragProgress = 0,
                   !.animation = "none",
                   !.transitionTimeoutRef = "null",
                   !.dragDirection = "null",
                   !.isTransitioning = FALSE]

OlderCommitReset(a) ==
    [a EXCEPT !.dragProgress = 0,
              !.dragDirection = "null",
              !.isTransitioning = FALSE,
              !.rafCommitReset = @ - 1]

OlderSwipeStartAt(clientX) ==
    /\ ~crashed
    /\ ~isSwitcherOpen
    /\ app' = Render(handleOlderSwipeStart(app, app, clientX), tabs)

OlderSwipeStart ==
    /\ \E clientX \in XPositions : OlderSwipeStartAt(clientX)
    /\ UNCHANGED <<tabs, now, crashed, isSwitcherOpen, bar, sbar, editor, lastOp,
                   page, exiting, addressBar>>

OlderSwipeMove ==
    /\ ~crashed
    /\ \E clientX \in XPositions :
        app' = Render(handleOlderSwipeMove(app, app, tabs, clientX), tabs)
    /\ UNCHANGED <<tabs, now, crashed, isSwitcherOpen, bar, sbar, editor, lastOp,
                   page, exiting, addressBar>>

OlderSwipeEnd ==
    /\ ~crashed
    /\ SwipeEndRuns(app, app)
    /\ PendingCallbacks(app) < MaxRacing
    /\ \E t \in ClockReadings :
        /\ tabs' = OlderSwipeEndTabs(app, app, tabs, t)
        /\ now' = IF Len(tabs') > Len(tabs) THEN t ELSE now
        /\ Len(tabs') <= MaxTabs
    /\ app' = Render(handleOlderSwipeEnd(app, app, tabs), tabs')
    /\ UNCHANGED <<crashed, isSwitcherOpen, bar, sbar, editor, lastOp, page, exiting, addressBar>>

OlderTransitionTimeout ==
    /\ ~crashed
    /\ app.transitionTimeoutRef # "null"
    /\ app' = Render(OlderTimeout(app), tabs)
    /\ UNCHANGED <<tabs, now, crashed, isSwitcherOpen, bar, sbar, editor, lastOp,
                   page, exiting, addressBar>>

OlderAnimationEnd ==
    /\ ~crashed
    /\ app.animation # "none"
    /\ app' = Render(OlderAnimationComplete(app), tabs)
    /\ UNCHANGED <<tabs, now, crashed, isSwitcherOpen, bar, sbar, editor, lastOp,
                   page, exiting, addressBar>>

OlderCommitResetFrame ==
    /\ ~crashed
    /\ app.rafCommitReset > 0
    /\ app' = Render(OlderCommitReset(app), tabs)
    /\ UNCHANGED <<tabs, now, crashed, isSwitcherOpen, bar, sbar, editor, lastOp,
                   page, exiting, addressBar>>

NextOlderSwipe ==
    \/ OlderSwipeStart
    \/ OlderSwipeMove
    \/ OlderSwipeEnd
    \/ OlderTransitionTimeout
    \/ OlderAnimationEnd
    \/ OlderCommitResetFrame

SpecOlderSwipe == InitSwipeToDelete /\ [][NextOlderSwipe]_vars

----------------------------------------------------------------------------
\* App of part_009 with its loading and saving: the page mounts with no task,
\* fetchTasks is in flight, and every change of the task sends saveTasks

MaxRequests == 1

\* Fault variant of loadTasksFromServer: no default task is created
loadTasksWithoutDefault(pg, result, t) ==
    LET fallsBack == ~result.success \/ Len(result.tasks) = 0
    IN  [ page |-> [pg EXCEPT !.isLoading = FALSE,
                              !.error = IF result.success THEN "null"
                                        ELSE "Failed to load tasks: " \o result.error,
                              !.hasTask = ~fallsBack,
                              !.taskId = IF fallsBack THEN pg.taskId
                                         ELSE result.tasks[1].id,
                              !.taskName = IF fallsBack THEN pg.taskName
                                           ELSE result.tasks[1].name,
                              !.fetchPending = FALSE],
          tabs |-> IF fallsBack THEN << >> ELSE result.tasks[1].tabs ]

\* loadTasksFromServer after its await: result is what fetchTasks resolved
\* to and t the reading of Date.now() in createDefaultTask; gives the page
\* and task.tabs
loadTasksFromServer(pg, result, t) ==
    LET fallsBack == ~result.success \/ Len(result.tasks) = 0
    IN  [ page |-> [pg EXCEPT !.isLoading = FALSE,
                              !.error = IF result.success THEN "null"
                                        ELSE "Failed to load tasks: " \o result.error,
                              !.hasTask = TRUE,
                              !.taskId = IF fallsBack THEN t
                                         ELSE result.tasks[1].id,
                              !.taskName = IF fallsBack THEN "Untitled Task 1"
                                           ELSE result.tasks[1].name,
                              !.fetchPending = FALSE],
          tabs |-> IF fallsBack THEN createDefaultTask(t)
                   ELSE result.tasks[1].tabs ]

\* The save effect, which runs when task or isLoading changed: the body of
\* the request of saveTasks([task]) goes in flight
SaveEffect(pg, ts) ==
    IF pg.hasTask /\ ~pg.isLoading
    THEN [pg EXCEPT !.requests = Append(@, saveTasksBody(<< TaskOf(pg, ts) >>))]
    ELSE pg

\* saveTasksToServer after its await
saveTasksToServer(pg, result) ==
    IF ~result.success
    THEN [pg EXCEPT !.error = "Failed to save: " \o result.error]
    ELSE pg

InitPersist ==
    /\ now = 0
    /\ tabs = << >>
    /\ crashed = FALSE
    /\ isSwitcherOpen = FALSE
    /\ app = InitApp
    /\ bar = InitBar
    /\ sbar = InitSBar
    /\ editor = InitEditor
    /\ lastOp = NoOp
    /\ page = MountedPage(NoValue, NoHistory)
    /\ exiting = NoCard
    /\ addressBar = InitAddressBar(TRUE, TRUE)

\* The request of fetchTasks is answered and loadTasksFromServer resumes
LoadResponse ==
    /\ page.fetchPending
    /\ \E network \in Networks, store \in Stores, t \in ClockReadings :
          LET result == fetchTasks(Fetched(network,
                                           serverGetTasks(page.kv, store)))
              loaded == loadTasksFromServer(page, result, t)
              recorded == [loaded.page EXCEPT
                             !.history.lastFetch = result,
                             !.history.fetchedOver = page.history.written,
                             !.history.fetchHealthy =
                                 network = "delivers" /\ store = "ok"]
          IN  /\ tabs' = loaded.tabs
              /\ now' = t
              /\ page' = SaveEffect(recorded, tabs')
              /\ app' = Render(app, tabs')
    /\ UNCHANGED <<crashed, isSwitcherOpen, bar, sbar, editor, lastOp, exiting, addressBar>>

\* A request of saveTasks in flight is answered and saveTasksToServer
\* resumes; the server handles the request unless the network fails or
\* something else answers in its place
SaveResponse ==
    /\ \E k \in 1..Len(page.requests), network \in Networks, store \in Stores :
          LET body == page.requests[k]
              result == saveTasks(Fetched(network,
                                          serverPostTasks(page.kv, store, body)))
              handled == network = "delivers"
              rest == [i \in 1..(Len(page.requests) - 1) |->
                          IF i < k THEN page.requests[i]
                          ELSE page.requests[i + 1]]
          IN  page' = [saveTasksToServer(page, result) EXCEPT
                          !.requests = rest,
                          !.kv = IF handled
                                 THEN serverPostStores(page.kv, store, body)
                                 ELSE page.kv,
                          !.history.written =
                              IF handled /\ store = "ok"
                              THEN parseTasks(body.tasks)
                              ELSE page.history.written,
                          !.history.lastSave = result]
    /\ UNCHANGED <<tabs, now, crashed, isSwitcherOpen, app, bar, sbar, editor,
                   lastOp, exiting, addressBar>>

\* The operations of the switcher on the page that is shown; each sets the
\* task and so runs the save effect
PersistNewTab ==
    /\ PageShown(page)
    /\ Len(page.requests) < MaxRequests
    /\ \E t \in ClockReadings : SwitcherNewTabAt(t)
    /\ page' = SaveEffect(page, tabs')
    /\ UNCHANGED <<crashed, bar, sbar, editor, lastOp, exiting, addressBar>>

PersistTabSelect ==
    /\ PageShown(page)
    /\ Len(page.requests) < MaxRequests
    /\ \E tabId \in TabIds : TabSelectOf(tabId)
    /\ page' = SaveEffect(page, tabs')
    /\ UNCHANGED <<now, crashed, bar, sbar, editor, lastOp, exiting, addressBar>>

PersistTabClose ==
    /\ PageShown(page)
    /\ Len(page.requests) < MaxRequests
    /\ \E tabId \in TabIds, t \in ClockReadings : TabCloseOf(tabId, t)
    /\ page' = IF crashed' THEN page ELSE SaveEffect(page, tabs')
    /\ UNCHANGED <<isSwitcherOpen, bar, sbar, editor, lastOp, exiting, addressBar>>

PersistCanvasTypeSelect ==
    /\ PageShown(page)
    /\ Len(page.requests) < MaxRequests
    /\ CanvasTypeSelectOf("doc")
    /\ page' = SaveEffect(page, tabs')
    /\ UNCHANGED <<now, crashed, isSwitcherOpen, app, bar, sbar, editor, lastOp, exiting, addressBar>>

\* The Retry button of the error screen: window.location.reload() mounts the
\* page anew; requests the server has not handled are aborted
Reload ==
    /\ ~page.isLoading
    /\ page.error # "null"
    /\ page' = MountedPage(page.kv, page.history)
    /\ tabs' = << >>
    /\ crashed' = FALSE
    /\ isSwitcherOpen' = FALSE
    /\ app' = InitApp
    /\ bar' = InitBar
    /\ sbar' = InitSBar
    /\ editor' = InitEditor
    /\ UNCHANGED <<now, lastOp, exiting, addressBar>>

NextPersist ==
    \/ LoadResponse
    \/ SaveResponse
    \/ SwitcherToggle
    \/ PersistNewTab
    \/ PersistTabSelect
    \/ PersistTabClose
    \/ PersistCanvasTypeSelect
    \/ Reload

SpecPersist == InitPersist /\ [][NextPersist]_vars

\* The page with several requests of saveTasks in flight, which the server
\* handles in any order (SaveResponse takes any of them)
MaxInFlight == 2

SavesTabOperation ==
    /\ PageShown(page)
    /\ Len(page.requests) < MaxInFlight
    /\ \/ \E t \in ClockReadings : SwitcherNewTabAt(t) /\ UNCHANGED crashed
       \/ \E tabId \in TabIds : TabSelectOf(tabId) /\ UNCHANGED <<now, crashed>>
    /\ page' = SaveEffect(page, tabs')
    /\ UNCHANGED <<bar, sbar, editor, lastOp, exiting, addressBar>>

NextSaves ==
    \/ LoadResponse
    \/ SaveResponse
    \/ SwitcherToggle
    \/ SavesTabOperation
    \/ Reload

SpecSaves == InitPersist /\ [][NextSaves]_vars


\* The gestures on TabBar.tsx alone, where a gesture may be released while
\* callbacks of the release before it are still to run, under the same
\* fairness and with every pointer that went down lifted or cancelled
NextRacing ==
    \/ SwitcherToggle
    \/ PointerDown
    \/ PointerMove
    \/ PointerUpRacing
    \/ TransitionTimeout
    \/ AnimationStart
    \/ AnimationEnd
    \/ CommitResetFrame
    \/ SnapBackResetFrame

SpecRacing ==
    Init /\ [][NextRacing]_vars /\ Fairness /\ WF_vars(PointerUpRacing)

----------------------------------------------------------------------------
\* Properties

ActiveIndices(ts) == { i \in 0..(Len(ts) - 1) : ts[i + 1].isActive }

DistinctIds(ts) ==
    \A i, j \in 1..Len(ts) : i # j => ts[i].id # ts[j].id

\* C1: in every reachable state exactly one tab of the task has isActive = true
C1_ExactlyOneActive == Cardinality(ActiveIndices(tabs)) = 1

\* C2: in every reachable state task.tabs holds at least one tab
C2_AtLeastOneTab == Len(tabs) >= 1

\* --- the release of a horizontal gesture, as the claims speak of it ---

\* progress > 0.3
ProgressOverThreshold ==
    CommitThresholdDen * app.dragProgress > CommitThresholdNum * ViewportWidth

\* The displacement of the pointer at release
ReleaseDeltaX == app.lastClientX - app.dragStartX

\* The step is a pointer-up that ends a horizontal gesture and runs
\* handleSwipeEnd past its early returns
ReleaseStep ==
    /\ PointerUpEndsSwipe(bar)
    /\ ~bar'.isGestureActive
    /\ app.isDragging
    /\ ~app.isTransitioning

\* The gesture has a direction: leftwards, or rightwards with a previous tab
ReleaseHasDirection ==
    /\ HasActiveTab(tabs)
    /\ \/ ReleaseDeltaX < 0
       \/ ReleaseDeltaX > 0 /\ ActiveTabIndex(tabs) > 0

CommittingRelease == ReleaseStep /\ ProgressOverThreshold /\ ReleaseHasDirection

\* ts with the tab at index k as its only active tab, nothing else changed
WithOnlyActive(ts, k) ==
    [j \in 1..Len(ts) |-> [ts[j] EXCEPT !.isActive = (j - 1 = k)]]

\* C3: a committing release changes the active tab in that very step, with the
\* animation towards 1 only requested and not yet started, and no callback of
\* the release (animation start, completion, reset frame, safety timeout)
\* changes the task afterwards
C3_CommitChangesActiveTabOnce ==
    [][ /\ CommittingRelease =>
              /\ ActiveIndices(tabs') # ActiveIndices(tabs)
              /\ app'.rafAnimate = app.rafAnimate + 1
              /\ app'.animation = app.animation
        /\ (AnimationStart \/ AnimationEnd \/ CommitResetFrame
                \/ SnapBackResetFrame \/ TransitionTimeout) => tabs' = tabs
      ]_vars

\* C4: a release with progress > 0.3 whose active tab (index i) has a
\* neighbour in the drag direction makes that neighbour (i + 1 leftwards, i - 1
\* rightwards) the only active tab and changes nothing else of the list
C4_CommitSwitchesToNeighbour ==
    [][ LET i == ActiveTabIndex(tabs)
        IN  /\ (ReleaseStep /\ ProgressOverThreshold /\ HasActiveTab(tabs)
                  /\ ReleaseDeltaX < 0 /\ i < Len(tabs) - 1)
                => tabs' = WithOnlyActive(tabs, i + 1)
            /\ (ReleaseStep /\ ProgressOverThreshold /\ HasActiveTab(tabs)
                  /\ ReleaseDeltaX > 0 /\ i > 0)
                => tabs' = WithOnlyActive(tabs, i - 1)
      ]_vars

\* C5: a leftward release with progress > 0.3 while the active tab is the last
\* tab appends exactly one tab, blank and active; the tabs that existed keep
\* their index and end inactive
C5_OverscrollAppendsBlankTab ==
    [][ (ReleaseStep /\ ProgressOverThreshold /\ HasActiveTab(tabs)
            /\ ReleaseDeltaX < 0 /\ ActiveTabIndex(tabs) = Len(tabs) - 1)
        => /\ Len(tabs') = Len(tabs) + 1
           /\ tabs'[Len(tabs')].canvasType = "null"
           /\ tabs'[Len(tabs')].isActive
           /\ \A j \in 1..Len(tabs) :
                tabs'[j] = [tabs[j] EXCEPT !.isActive = FALSE]
      ]_vars

\* The controller is at rest after a transition
TransitionIsReset ==
    /\ ~app.isTransitioning
    /\ app.dragDirection = "null"
    /\ app.dragProgress = 0

\* C6: a release with progress <= 0.3, or with no direction, leaves task.tabs
\* as it was, and the progress value returns to 0 afterwards (as long as the
\* tree stays mounted)
C6_SnapBackLeavesTaskAndReturnsToZero ==
    /\ [][ (ReleaseStep /\ ~(ProgressOverThreshold /\ ReleaseHasDirection))
              => tabs' = tabs ]_vars
    /\ (app.transitionTimeoutRef = "snap") ~> (app.dragProgress = 0 \/ crashed)

\* A gesture was released below the threshold and the snap-back is under way
C6_Witness ==
    /\ app.transitionTimeoutRef = "snap"
    /\ app.dragProgress > 0
    /\ ~ProgressOverThreshold
    /\ Len(tabs) > 1

\* The step calls onSwipeStart: handlePointerMove sets hasDragged on a
\* horizontal lock
SwipeStartCall == bar.swipeStarted = "null" /\ bar'.swipeStarted # "null"

\* C7: handleSwipeStart called while isTransitioning or isDragging returns
\* false and changes nothing, and the pointer move and up events that arrive
\* during a transition change neither the progress, nor dragDirection, nor the
\* task
C7_BlockedWhileTransitioningOrDragging ==
    [][ /\ (SwipeStartCall /\ (app.isTransitioning \/ app.isDragging))
              => (bar'.swipeStarted = "false" /\ app' = app /\ tabs' = tabs)
        /\ (app.isTransitioning /\ (PointerDown \/ PointerMove \/ PointerUp))
              => /\ app'.dragProgress = app.dragProgress
                 /\ app'.dragDirection = app.dragDirection
                 /\ tabs' = tabs
      ]_vars

\* onSwipeStart was refused to a second gesture while the first one was still
\* dragging, with a progress and a direction it did not touch
C7_Witness ==
    /\ bar.swipeStarted = "false"
    /\ app.isDragging
    /\ app.dragProgress > 0
    /\ app.dragDirection # "null"

\* C8: after a release that enters a transition the controller eventually
\* rests (isTransitioning false, dragDirection null, progress 0) when the
\* safety timeout fires unless cleared, whether or not an animation ever
\* completes (as long as the tree stays mounted).  It holds while every
\* release finds the callbacks of the earlier releases run (SpecLive) and
\* fails when a release finds one of them still to run (SpecRacing).
C8_TransitionEventuallyResets ==
    app.isTransitioning ~> (TransitionIsReset \/ crashed)

\* C9: in a gesture that started on the first tab no move sets dragDirection
\* to right, the progress and both pane offsets are 0 whenever the pointer is
\* to the right of where the gesture started, and releasing it there leaves
\* the task as it was
C9_FirstTabRightDragIsNoOp ==
    /\ [](app.isDragging /\ app.gestureStartIndex = 0
            => app.dragDirection # "right")
    /\ []((app.isDragging /\ app.gestureStartIndex = 0
             /\ app.lastClientX > app.dragStartX)
            => (app.dragProgress = 0 /\ app.currentTabX = 0
                  /\ app.adjacentTabX = 0))
    /\ [][ (ReleaseStep /\ app.gestureStartIndex = 0 /\ ReleaseDeltaX > 0)
              => tabs' = tabs ]_vars

\* The step is a pointer move of the standalone bar that calls onSwipeUp
StandaloneSwipeUpFires ==
    /\ StandaloneMove
    /\ \E x \in XPositions, y \in YPositions :
        /\ StandaloneMoveSwipesUp(sbar, x, y)
        /\ sbar' = StandalonePointerMove(sbar, app, app, x, y)

SwipeUpCalledAtMostOnce == bar.swipeUpCalls <= 1 /\ sbar.swipeUpCalls <= 1

RemoveAt(ts, k) ==
    [i \in 1..(Len(ts) - 1) |-> IF i <= k THEN ts[i] ELSE ts[i + 1]]

\* ts after its tab at index k was closed and the tab that took its index, or
\* the one before it when k was the last index, was made active
ClosedWithNeighbourActive(ts, k) ==
    LET rest == RemoveAt(ts, k)
        j == IF k < Len(rest) THEN k ELSE k - 1
    IN  [rest EXCEPT ![j + 1].isActive = TRUE]

\* The step removes the tab at index k: no tab of its id is left
StepRemovesTabAt(k) ==
    /\ k \in 0..(Len(tabs) - 1)
    /\ \A i \in 1..Len(tabs') : tabs'[i].id # tabs[k + 1].id

\* C12: closing the active tab of a task with at least two tabs removes that
\* tab alone and makes active the tab that now has its index, or the tab at
\* the previous index when it was the last one
C12_CloseActiveActivatesNeighbour ==
    [][ (TabClose /\ Len(tabs) >= 2)
            => \A k \in ActiveIndices(tabs) :
                   StepRemovesTabAt(k)
                       => tabs' = ClosedWithNeighbourActive(tabs, k) ]_vars

C14_CloseInactiveRemovesOnlyThatTab ==
    (lastOp.op = "close" /\ Len(lastOp.pre) >= 2)
        => \A k \in 0..(Len(lastOp.pre) - 1) :
               (lastOp.pre[k + 1].id = lastOp.id /\ ~lastOp.pre[k + 1].isActive)
                   => (~crashed /\ tabs = RemoveAt(lastOp.pre, k))

\* The ids of ts in the order of ts
IdsOf(ts) == [i \in 1..Len(ts) |-> ts[i].id]

\* a is b without some of its elements
RECURSIVE IsSubsequence(_, _)
IsSubsequence(a, b) ==
    IF a = << >> THEN TRUE
    ELSE IF b = << >> THEN FALSE
    ELSE IF Head(a) = Head(b)
         THEN IsSubsequence(Tail(a), Tail(b))
         ELSE IsSubsequence(a, Tail(b))

\* C15: a step that changes the task keeps the tabs in their order: either
\* one tab is added, after all the others, or the tabs that are left are in
\* the order they were in (the only tab of a task is replaced by one tab)
C15_TabOrderKept ==
    [][ tabs' # tabs
            => \/ /\ Len(tabs') = Len(tabs) + 1
                  /\ SubSeq(IdsOf(tabs'), 1, Len(tabs)) = IdsOf(tabs)
               \/ /\ Len(tabs') <= Len(tabs)
                  /\ Len(tabs) > 1
                  /\ IsSubsequence(IdsOf(tabs'), IdsOf(tabs))
               \/ Len(tabs) = 1 /\ Len(tabs') = 1 ]_vars

\* A tab was created in a task of two tabs with different ids, and it is the
\* third tab after the two in their order
C15_Witness ==
    /\ lastOp.op = "newTab"
    /\ Len(lastOp.pre) = 2
    /\ lastOp.pre[1].id # lastOp.pre[2].id
    /\ Len(tabs) = 3
    /\ tabs[1].id = lastOp.pre[1].id
    /\ tabs[2].id = lastOp.pre[2].id
    /\ tabs[3].isActive

\* 'Untitled ' followed by the capitalised canvas type
UntitledName(type) ==
    IF type = "doc" THEN "Untitled Doc"
    ELSE IF type = "sheet" THEN "Untitled Sheet"
    ELSE IF type = "comm" THEN "Untitled Comm"
    ELSE "Untitled Chat"

\* C16: selecting a canvas type gives the active tab that type and the name
\* 'Untitled ' with the capitalised type, and changes nothing else: the tabs
\* are as many, in the same order, with the same isActive flags, and every
\* other tab has all its fields as before
C16_CanvasTypeSelectChangesActiveTabOnly ==
    lastOp.op = "canvasType"
        => LET k == ActiveTabIndex(lastOp.pre)
           IN  tabs = [lastOp.pre EXCEPT
                          ![k + 1].canvasType = lastOp.text,
                          ![k + 1].name = UntitledName(lastOp.text)]

\* C17: committing the edit of the name of the tab shown in the bar leaves
\* the task as it was when the trimmed text is empty or the name the tab had
\* when the editing started; otherwise that tab's name is the trimmed text
\* and nothing else of the task has changed
C17_TabNameCommit ==
    lastOp.op = "rename"
        => LET k == DisplayedTabIndex(lastOp.pre)
           IN  IF lastOp.text = "" \/ lastOp.text = lastOp.pre[k + 1].name
               THEN tabs = lastOp.pre
               ELSE tabs = [lastOp.pre EXCEPT ![k + 1].name = lastOp.text]

\* C18: tapping the card of the tab at index k makes that tab the only
\* active tab and leaves the switcher closed
C18_SelectMakesOnlyActiveAndCloses ==
    [][ \A k \in 0..(Len(tabs) - 1) :
            TabSelectOf(tabs[k + 1].id)
                => (~isSwitcherOpen' /\ ActiveIndices(tabs') = {k}) ]_vars

\* The task's tabs after a new blank tab created at clock reading t was
\* appended, all other tabs deactivated and the new one activated
WithNewBlankTab(ts, t) ==
    [k \in 1..(Len(ts) + 1) |->
        IF k <= Len(ts)
        THEN [ts[k] EXCEPT !.isActive = FALSE]
        ELSE [id |-> t, name |-> "Blank Tab", canvasType |-> "null",
              createdAt |-> t, isActive |-> TRUE, commentCount |-> 0]]

\* C19: the New Tab button of the switcher appends a new blank tab,
\* deactivates all other tabs, activates the new one and leaves the switcher
\* open
C19_SwitcherNewTabKeepsSwitcherOpen ==
    [][ \A t \in ClockReadings :
            (SwitcherNewTabAt(t) \/ StandaloneNewTabAt(t))
                => (/\ tabs' = WithNewBlankTab(tabs, t)
                    /\ isSwitcherOpen' = isSwitcherOpen
                    /\ isSwitcherOpen') ]_vars

\* C20: in the swipe-to-delete variant, after a close action on a tab card (a
\* drag further than 100px to the left, or the close button of the card) the
\* switcher is closed
C20_CloseActionClosesSwitcher ==
    [][ \A k \in 0..(Len(tabs) - 1), t \in ClockReadings :
            (\/ CardCloseAt(k, t)
             \/ \E offsetX \in DragOffsets :
                    offsetX < -DeleteOffset /\ CardDragEndAt(k, offsetX, t))
                => ~isSwitcherOpen' ]_vars

\* C21: displayedTabIndex follows the active index only while dragDirection
\* is null: a step that ends with dragDirection 'left' or 'right' leaves
\* displayedTabIndex as it was, whatever happens to the active index, and
\* whenever dragDirection is null displayedTabIndex is the active index
\* (activeIndex of the component)
C21_DisplayedIndexLagsWhileDirectionSet ==
    /\ [](app.dragDirection = "null"
            => app.displayedTabIndex = activeIndex(tabs))
    /\ [][ app'.dragDirection # "null"
            => app'.displayedTabIndex = app.displayedTabIndex ]_vars

\* The active index has changed while a direction is set, and
\* displayedTabIndex still is the index the gesture started on
C21_Witness ==
    /\ ~crashed
    /\ app.dragDirection # "null"
    /\ app.displayedTabIndex # activeIndex(tabs)

\* The offset law: <<current, adjacent>> for a direction and a progress
\* (progress * W is the numerator itself)
OffsetLaw(direction, progressW, W) ==
    CASE direction = "left" -> << -progressW, W - progressW >>
      [] direction = "right" -> << progressW, -W + progressW >>
      [] OTHER -> << 0, 0 >>

C23_AcceptedStartResetsProgressAndDirection ==
    \A clientX \in XPositions :
        /\ SwipeStartAccepts(app, app)
            => LET started == handleSwipeStart(app, app, clientX)
               IN  /\ started.dragProgress = 0
                   /\ started.dragDirection = "null"
                   /\ started.dragDirectionRef = "null"
        /\ ~app.isTransitioning
            => LET started == handleOlderSwipeStart(app, app, clientX)
               IN  /\ started.dragProgress = 0
                   /\ started.dragDirection = "null"

\* saveTasks([task]) and then fetchTasks() with a network that delivers and a
\* KV store that works: what each of the two promises settles to
SavedThenFetched(kv, task) ==
    LET body == saveTasksBody(<< task >>)
        stored == serverPostStores(kv, "ok", body)
    IN  [ save |-> saveTasks(Fetched("delivers",
                                     serverPostTasks(kv, "ok", body))),
          fetch |-> fetchTasks(Fetched("delivers",
                                       serverGetTasks(stored, "ok"))) ]

\* C24: with a backend that stores what it receives, saveTasks([task]) and
\* then fetchTasks() resolve with success, and the tasks fetched are the one
\* task saved, with its tabs in their order and every field of each tab; so
\* for the task of the page over whatever was stored before, and so for the
\* last fetch of the page over what the server had last stored
C24_SaveThenFetchRoundTrip ==
    /\ page.hasTask
        => LET task == TaskOf(page, tabs)
               settled == SavedThenFetched(page.kv, task)
           IN  /\ settled.save = Settled("resolved", TRUE, << >>, Undefined)
               /\ settled.fetch = Settled("resolved", TRUE, << task >>, Undefined)
    /\ page.history.fetchHealthy
        => page.history.lastFetch
             = Settled("resolved", TRUE, page.history.fetchedOver, Undefined)

\* The page was reloaded and has fetched the task it had saved, a task of
\* two tabs of which one has a canvas type
C24_Witness ==
    /\ page.history.fetchHealthy
    /\ Len(page.history.fetchedOver) = 1
    /\ page.history.lastFetch.tasks = page.history.fetchedOver
    /\ PageShown(page)
    /\ Len(tabs) = 2
    /\ tabs = page.history.fetchedOver[1].tabs
    /\ tabs[1].id # tabs[2].id
    /\ tabs[1].canvasType # "null"
    /\ tabs[2].isActive

\* The request failed: fetch rejected, the status is not OK, the body is not
\* JSON, or the body has success = false
RequestFailed(fetched) ==
    \/ fetched.rejects
    \/ fetched.response.status \notin 200..299
    \/ ~fetched.response.json.isJson
    \/ ~fetched.response.json.success

\* The promise resolved to an object with success = false and a string error
ResolvedAsFailure(result) ==
    /\ result.settled = "resolved"
    /\ ~result.success
    /\ result.error \in STRING
    /\ result.error # Undefined

\* C25: fetchTasks and saveTasks never reject: whatever the network and the
\* KV store do to the request, the promise resolves, and when the request
\* failed it resolves to success = false with a string error, fetchTasks
\* with tasks = []; so for every call the page has made
C25_ClientFunctionsNeverReject ==
    /\ \A network \in Networks, store \in Stores :
          LET got == Fetched(network, serverGetTasks(page.kv, store))
              sent == Fetched(network,
                              serverPostTasks(page.kv, store,
                                  saveTasksBody(<< TaskOf(page, tabs) >>)))
          IN  /\ fetchTasks(got).settled = "resolved"
              /\ saveTasks(sent).settled = "resolved"
              /\ RequestFailed(got)
                    => /\ ResolvedAsFailure(fetchTasks(got))
                       /\ fetchTasks(got).tasks = << >>
              /\ RequestFailed(sent) => ResolvedAsFailure(saveTasks(sent))
    /\ page.history.lastFetch.settled \in {"none", "resolved"}
    /\ page.history.lastSave.settled \in {"none", "resolved"}
    /\ page.history.lastFetch.settled = "resolved"
          /\ ~page.history.lastFetch.success
          => /\ ResolvedAsFailure(page.history.lastFetch)
             /\ page.history.lastFetch.tasks = << >>

\* The last fetchTasks of the page failed on a status that is not OK and its
\* last saveTasks on a network error
C25_Witness ==
    /\ page.history.lastFetch = Settled("resolved", FALSE, << >>,
                                        "Error: HTTP error! status: 500")
    /\ page.history.lastSave = Settled("resolved", FALSE, << >>,
                                       "TypeError: Failed to fetch")

\* C26: when the fetch of the mounting page is answered with a failure or
\* with an empty list of tasks, the task of the page is a default task of
\* exactly one tab, blank and active, and the loading has ended
C26_FailedOrEmptyLoadCreatesDefaultTask ==
    [][ /\ page.fetchPending
        /\ ~page'.fetchPending
        /\ \/ ~page'.history.lastFetch.success
           \/ page'.history.lastFetch.tasks = << >>
        => /\ page'.hasTask
           /\ ~page'.isLoading
           /\ Len(tabs') = 1
           /\ tabs'[1].canvasType = "null"
           /\ tabs'[1].isActive ]_vars

\* The fetch has failed and the page holds the default task
C26_Witness ==
    /\ page.history.lastFetch.settled = "resolved"
    /\ ~page.history.lastFetch.success
    /\ page.error # "null"
    /\ ~page.isLoading
    /\ ~page.fetchPending
    /\ page.hasTask
    /\ Len(tabs) = 1

\* An operation on the tabs that the page accepts
TabOperation ==
    \/ SwitcherToggle
    \/ PersistNewTab
    \/ PersistTabSelect
    \/ PersistTabClose
    \/ PersistCanvasTypeSelect

\* C27: a failure of the fetch or of a save is not fatal to the page: while
\* the error is set on the loaded page, the page still accepts an operation
\* on the tabs
C27_FailureIsNotFatal ==
    /\ ~crashed
    /\ ~page.isLoading
    /\ page.hasTask
    /\ page.error # "null"
    => ENABLED TabOperation

\* C28: a release that commits makes active the tab that lies in the locked
\* dragDirection of the gesture: the next tab (a new one after the last) for
\* 'left', the previous tab for 'right'; the direction handleSwipeEnd uses
\* is the locked one
C28_CommitFollowsLockedDirection ==
    [][ /\ ~app.isTransitioning
        /\ app'.isTransitioning
        /\ SwipeEndCommits(app, app, tabs)
        /\ tabs' # tabs
        => /\ ActualDirection(app, tabs) = app.dragDirection
           /\ app.dragDirection = "left"
                => ActiveTabIndex(tabs') = ActiveTabIndex(tabs) + 1
           /\ app.dragDirection = "right"
                => ActiveTabIndex(tabs') = ActiveTabIndex(tabs) - 1 ]_vars

\* No pointer holds a gesture on the bar (a release of a further pointer
\* changes nothing then), and no transition is under way: no timeout, frame
\* or animation is pending
ReleasedAndSettled ==
    /\ ~bar.isGestureActive
    /\ ~app.isTransitioning
    /\ app.transitionTimeoutRef = "null"
    /\ PendingCallbacks(app) = 0

\* C29: after any sequence of pointer events on the address bar, a second
\* pointer-down before the release among them, once the pointers are
\* released and the transitions have finished the controller is idle and
\* handleSwipeStart accepts a new gesture
C29_IdleOnceReleasedAndSettled ==
    ~crashed /\ ReleasedAndSettled
    => /\ ~app.isDragging
       /\ app.dragDirection = "null"
       /\ app.dragProgress = 0
       /\ SwipeStartAccepts(app, app)

\* C30: the reset that ends a transition (by the safety timeout or by the
\* frame behind the completion of the animation) does not run while a later
\* gesture is in progress: such a step leaves the progress, the direction
\* and isTransitioning of the gesture as they are
C30_ResetNeverHitsLaterGesture ==
    [][ /\ app.isDragging
        /\ TransitionTimeout \/ CommitResetFrame \/ SnapBackResetFrame
        => /\ app'.dragProgress = app.dragProgress
           /\ app'.dragDirection = app.dragDirection
           /\ app'.isTransitioning = app.isTransitioning ]_vars

\* C31: once every request of saveTasks has completed, all of them with
\* success, the value the server has stored is the task of the page, in
\* whatever order the server handled the requests
C31_StoredIsLatestTaskOnceSavesComplete ==
    /\ ~crashed
    /\ page.hasTask
    /\ ~page.isLoading
    /\ page.error = "null"
    /\ page.requests = << >>
    => page.kv = Stored(stringifyTasks(<< TaskOf(page, tabs) >>))

\* C32: a failed fetch of the mounting page causes no write: while the page
\* stays as that load left it (its error screen takes no tab operation), no
\* request of saveTasks is in flight and the server still stores what it
\* stored when the fetch was answered
C32_FailedLoadWritesNothing ==
    /\ ~page.fetchPending
    /\ page.history.lastFetch.settled = "resolved"
    /\ ~page.history.lastFetch.success
    => /\ page.requests = << >>
       /\ page.history.written = page.history.fetchedOver

\* The tabs of ts whose id differs from tabId all have a tab of their id in
\* closed
KeepsOtherTabs(ts, closed, tabId) ==
    \A i \in 1..Len(ts) :
        ts[i].id # tabId => \E j \in 1..Len(closed) : closed[j].id = ts[i].id

\* C33: handleTabClose(tabId) removes no tab whose id differs from tabId,
\* called by a card of the task or by the card that animates out; when
\* tabId matches no tab of the task the task is unchanged, also when only
\* one tab remains
C33_CloseRemovesOnlyTheTabOfTheId ==
    \A t \in CardClockReadings :
        /\ \A tabId \in TabIds :
              ~TabCloseThrows(tabs, tabId)
              => KeepsOtherTabs(tabs, handleTabClose(tabs, tabId, t), tabId)
        /\ /\ exiting.present
           /\ exiting.id \notin TabIds
           /\ ~ExitingCloseThrows(exiting.tabs, tabs, exiting.id)
           => handleExitingTabClose(exiting.tabs, tabs, exiting.id, t) = tabs

\* C34: handleTabSelect(tabId) with a tabId that matches no tab of the task
\* (the card that animates out is tapped) leaves the isActive flag of every
\* tab as it is, and the task has an active tab afterwards
C34_SelectOfUnknownIdKeepsFlags ==
    exiting.present /\ exiting.id \notin TabIds /\ HasActiveTab(tabs)
    => /\ handleTabSelect(tabs, exiting.id) = tabs
       /\ HasActiveTab(handleTabSelect(tabs, exiting.id))

\* C35: in every reachable state the tabs of the task have pairwise distinct
\* ids, also when two tabs are created at the same reading of the clock
C35_TabIdsPairwiseDistinct == ~crashed => DistinctIds(tabs)

\* C36: whenever no gesture is in progress and no transition is under way,
\* the shared progress is 0 and dragDirection is null
C36_RestsOnlyAtZero ==
    ~crashed /\ ~app.isDragging /\ ~app.isTransitioning
    => app.dragProgress = 0 /\ app.dragDirection = "null"

\* C37: auto-save is debounced: a change of the task sends no request of
\* saveTasks with the render that follows it (the request goes out only
\* after a time without further changes), so a second change finds no
\* request of the first in flight
C37_SaveIsDebounced ==
    [][ PageShown(page) /\ tabs' # tabs
        => page'.requests = page.requests ]_vars

\* A horizontally locked drag of DraggableAddressBar is to the right of its
\* start on the first or only tab
RubberBandDrag ==
    /\ addressBar.isDragging
    /\ addressBar.dragDirection = "horizontal"
    /\ addressBar.dragCurrentX - addressBar.dragStartX > 0
    /\ addressBar.isFirstTab \/ addressBar.isSingleTab

\* C38: while a horizontally locked drag moves right on the first or only
\* tab the offset applied is deltaX / 3, and the release of such a drag, of
\* whatever length, calls neither onSwipeRight nor onSwipeLeft and sets the
\* offset to 0
C38_RubberBandOnFirstTab ==
    /\ [](RubberBandDrag
            => addressBar.offsetX
                 = <<addressBar.dragCurrentX - addressBar.dragStartX, 3>>)
    /\ [][ RubberBandDrag /\ ~addressBar'.isDragging
            => /\ addressBar'.swipeRightCalls = 0
               /\ addressBar'.swipeLeftCalls = 0
               /\ addressBar'.offsetX = <<0, 1>>
               /\ addressBar'.offsetY = 0 ]_vars

\* A drag to the right on the first tab, longer than the swipe threshold, has
\* been released
C38_Witness ==
    /\ ~addressBar.isDragging
    /\ addressBar.isAnimating
    /\ addressBar.releasedDirection = "horizontal"
    /\ addressBar.isFirstTab
    /\ addressBar.dragCurrentX - addressBar.dragStartX > 60
    /\ addressBar.swipeRightCalls = 0
    /\ addressBar.offsetX = <<0, 1>>

====
